---- MODULE Spec2Model ----
(***************************************************************************)
(* A model of the OpenTell learning engine: the learning store             *)
(* (lib/store.js), the cross-session analyzer (lib/cross-session.js), the  *)
(* context builder (lib/skill-writer.js) and the hook scripts              *)
(* (session-start, turn-stop, classifier worker, session-end).             *)
(*                                                                         *)
(* Conventions of the model                                                *)
(*  - A text is a sequence of word tokens (<<"Uses", "pnpm">> is           *)
(*    "Uses pnpm"); the token "--" stands for the em-dash.                 *)
(*  - Confidence and decay_weight are fixed-point numbers in units of      *)
(*    1/10000 (0.45 is 4500); products are truncated.                      *)
(*  - Time is in minutes.                                                  *)
(*  - An optional JSON key that is absent is modelled by a sentinel        *)
(*    ("" , 0, <<>> or a has_... flag).                                    *)
(***************************************************************************)
EXTENDS Integers, Sequences, FiniteSets, TLC

VARIABLES
    learnings,   \* learnings.json: data.learnings, in file order
    meta,        \* learnings.json: data.meta
    wal,         \* wal.jsonl: the entries, in file order
    buffer,      \* session-buffer.json
    profile,     \* profile.json (present or not, and what it was built from)
    config,      \* config.json as loadConfig returns it
    now,         \* the wall clock, in minutes
    nextId,      \* source of fresh ids (generateId)
    procs,       \* the running processes: classifier workers, session-end, racing callers
    context,     \* what the last session-start wrote to stdout
    claudeMd,    \* the project's CLAUDE.md
    hist         \* bookkeeping about the run that the claims refer to (observation only)

vars == <<learnings, meta, wal, buffer, profile, config, now, nextId, procs,
          context, claudeMd, hist>>

----------------------------------------------------------------------------
(* Numbers *)

One == 100 * 100

ACTIVATION_THRESHOLD == 4500
PROMOTION_THRESHOLD == 8000
PROMOTION_MIN_EVIDENCE == 4
ARCHIVE_THRESHOLD == 1500
INFERRED_CAP == 4400
REINFORCE_DELTA == 1500
ALIGN_DELTA == 2500
CORROBORATE_DELTA == 300
INFERRED_REINFORCE_DELTA == 500
PASSIVE_DELTA == 300
DEFAULT_OBS_CONFIDENCE == 2000
MAX_EVIDENCE == 10
DEFAULT_MAX_LEARNINGS == 100
CROSS_BOOST_DELTA == 1000
DEEP_UPGRADE_DELTA == 500
CROSS_BOOST_SESSIONS == 3
UPGRADE_SESSIONS == 4
DEEP_UPGRADE_SESSIONS == 5
SESSION_GAP_MINUTES == 30
MINUTES_PER_DAY == 24 * 60
DECAY_SLOW_DAYS == 14
DECAY_FAST_DAYS == 30
DECAY_SLOW_FACTOR == 9500
DECAY_FAST_FACTOR == 9000
WAL_DRAIN_CAP == 10
MIN_CONSOLIDATE_ACTIVE == 6
MIN_PROFILE_ACTIVE == 3
PROFILE_MODE_MIN == 6
PROFILE_STALE_SESSIONS == 10
DEFAULT_THRESHOLD == 4500

Min(a, b) == IF a < b THEN a ELSE b
Max(a, b) == IF a > b THEN a ELSE b

Range(s) == {s[i] : i \in 1..Len(s)}

----------------------------------------------------------------------------
(* Texts *)

EmDash == "--"

\* String.prototype.toLowerCase on one token: the capitalised tokens of the
\* vocabulary are mapped to their lower-case form, all others are lower-case.
LowerWord(w) ==
    CASE w = "Uses" -> "uses"
      [] w = "Use" -> "use"
      [] w = "Prefers" -> "prefers"
      [] w = "Avoids" -> "avoids"
      [] w = "Values" -> "values"
      [] w = "Expects" -> "expects"
      [] w = "Designs" -> "designs"
      [] OTHER -> w

toLowerCase(text) == [i \in 1..Len(text) |-> LowerWord(text[i])]

\* text.length: the characters of the tokens plus the single spaces between them.
WordLen(w) == IF w = EmDash THEN 1 ELSE Len(w)

RECURSIVE SumLen(_)
SumLen(text) == IF text = <<>> THEN 0 ELSE WordLen(Head(text)) + SumLen(Tail(text))

TextLength(text) == IF text = <<>> THEN 0 ELSE SumLen(text) + Len(text) - 1

\* The single-token alternatives of extractCore's leading-prefix regex.
CorePrefixWords ==
    {"use", "uses", "prefer", "prefers", "avoid", "avoids",
     "design", "designs", "value", "values", "expect", "expects"}

\* Index of the first em-dash token, or Len+1 when there is none.
DashIndex(text) ==
    IF \E i \in 1..Len(text) : text[i] = EmDash
    THEN CHOOSE i \in 1..Len(text) :
            text[i] = EmDash /\ \A j \in 1..(i-1) : text[j] # EmDash
    ELSE Len(text) + 1

\* extractCore: lower-case, strip one leading conventional prefix, strip the
\* tail from the em-dash on, collapse whitespace.
extractCore(text) ==
    LET lower == toLowerCase(text)
        stripped == IF lower # <<>> /\ Head(lower) \in CorePrefixWords
                    THEN Tail(lower) ELSE lower
    IN SubSeq(stripped, 1, DashIndex(stripped) - 1)

\* extractPrefix: startsWith("avoid") / ("use") / ("prefer"), in that order.
extractPrefix(text) ==
    LET lower == toLowerCase(text)
    IN IF lower = <<>> THEN "other"
       ELSE IF Head(lower) \in {"avoid", "avoids"} THEN "avoids"
       ELSE IF Head(lower) \in {"use", "uses"} THEN "uses"
       ELSE IF Head(lower) \in {"prefer", "prefers"} THEN "prefers"
       ELSE "other"

prefixContradicts(a, b) ==
    IF a = b THEN FALSE
    ELSE (a = "avoids" /\ b = "uses") \/ (a = "uses" /\ b = "avoids")

\* a.split(/\s+/) as a set: the empty string splits into the one word "".
WordSet(words) == IF words = <<>> THEN {""} ELSE Range(words)

\* similarity(a, b) > num/den, for the Jaccard index |A n B| / |A u B|.
SimilarityAbove(a, b, num, den) ==
    LET setA == WordSet(a)
        setB == WordSet(b)
    IN Cardinality(setA \cap setB) * den > num * Cardinality(setA \cup setB)

similar(a, b) == SimilarityAbove(a, b, 7, 10)

DEPTH_ORDER(c) ==
    CASE c = "THINKING_PATTERN" -> 5
      [] c = "DESIGN_PRINCIPLE" -> 4
      [] c = "QUALITY_STANDARD" -> 3
      [] c = "BEHAVIORAL_GAP" -> 2
      [] c = "PREFERENCE" -> 1
      [] OTHER -> 0

\* Variant of isDeeper that takes any classification of another depth.
isDeeper_AnyOther(a, b) == DEPTH_ORDER(a) # DEPTH_ORDER(b)

isDeeper(a, b) == DEPTH_ORDER(a) > DEPTH_ORDER(b)

START_CONFIDENCE(cls, certainty) ==
    LET c == IF DEPTH_ORDER(cls) = 0 THEN "PREFERENCE" ELSE cls
        high == CASE c \in {"THINKING_PATTERN", "DESIGN_PRINCIPLE"} -> 3800
                  [] c \in {"QUALITY_STANDARD", "PREFERENCE"} -> 3500
                  [] OTHER -> 3000
    IN IF certainty = "low" THEN high - 1000 ELSE high

----------------------------------------------------------------------------
(* Contradiction detection *)

TOOL_CATEGORIES(w) ==
    CASE w \in {"npm", "pnpm", "yarn", "bun"} -> "package_manager"
      [] w \in {"jest", "vitest", "mocha", "pytest"} -> "test_framework"
      [] w \in {"playwright", "cypress"} -> "e2e_testing"
      [] w \in {"eslint", "biome", "ruff"} -> "linter"
      [] w \in {"prettier", "black"} -> "formatter"
      [] w \in {"react", "vue", "svelte", "angular"} -> "ui_framework"
      [] w \in {"nextjs", "next.js", "nuxt", "remix", "astro"} -> "meta_framework"
      [] w \in {"express", "hono", "fastapi", "flask", "django"} -> "server_framework"
      [] w \in {"supabase", "firebase"} -> "backend_service"
      [] w \in {"postgres", "mysql", "sqlite", "mongo"} -> "database"
      [] w \in {"prisma", "drizzle", "typeorm"} -> "orm"
      [] w \in {"tailwind", "bootstrap"} -> "css_framework"
      [] OTHER -> ""

\* identifyTool: the first word of the text that names a known tool, as
\* [name, category]; name "" when there is none.
\* (The text is split on whitespace, commas, dots and slashes, so the table's
\* key "next.js" is never looked up.)
IsToolWord(w) == TOOL_CATEGORIES(w) # "" /\ w # "next.js"

identifyTool(words) ==
    IF \E i \in 1..Len(words) : IsToolWord(words[i])
    THEN LET i == CHOOSE k \in 1..Len(words) :
                    /\ IsToolWord(words[k])
                    /\ \A j \in 1..(k-1) : ~IsToolWord(words[j])
         IN [name |-> words[i], category |-> TOOL_CATEGORIES(words[i])]
    ELSE [name |-> "", category |-> ""]

Has(text, ws) == \E i \in 1..Len(text) : text[i] \in ws
Adjacent(text, ws1, ws2) ==
    \E i \in 1..(Len(text) - 1) : text[i] \in ws1 /\ text[i+1] \in ws2
Ordered(text, ws1, ws2) ==
    \E i \in 1..Len(text) : \E j \in (i+1)..Len(text) : text[i] \in ws1 /\ text[j] \in ws2

CommentWords == {"comment", "comments"}
TypeWords == {"type", "types"}

\* STYLE_OPPOSITES[k][0] and [k][1], matched on the tokens of a lower-cased text.
StyleLeft(k, t) ==
    CASE k = 1 -> Has(t, {"concise", "shorter", "brief", "minimal"}) \/ Adjacent(t, {"less"}, {"verbose"})
      [] k = 2 -> \/ Has(t, {"code-first", "codefirst"}) \/ Adjacent(t, {"code"}, {"first"})
                  \/ Ordered(t, {"just"}, {"code"}) \/ Ordered(t, {"skip"}, {"explanation"})
      [] k = 3 -> \/ Ordered(t, {"minimal"}, CommentWords) \/ Adjacent(t, {"no"}, CommentWords)
                  \/ Ordered(t, {"skip"}, CommentWords) \/ Adjacent(t, {"fewer"}, CommentWords)
      [] k = 4 -> Ordered(t, {"functional"}, {"component", "components"})
      [] k = 5 -> Ordered(t, {"named"}, {"export", "exports"})
      [] k = 6 -> Ordered(t, {"strict"}, TypeWords \cup {"typing", "typed"}) \/ Ordered(t, {"add"}, TypeWords)
      [] k = 7 -> \/ Has(t, {"simplicity"}) \/ Ordered(t, {"keep"}, {"simple"})
                  \/ Adjacent(t, {"don't"}, {"over-engineer", "overengineer"})
      [] OTHER -> \/ Ordered(t, {"prototype", "prototypes"}, {"first"})
                  \/ Ordered(t, {"rough"}, {"version"}) \/ Has(t, {"mvp"})

StyleRight(k, t) ==
    CASE k = 1 -> \/ Has(t, {"verbose", "detailed", "thorough", "comprehensive"})
                  \/ Adjacent(t, {"more"}, {"explanation"})
      [] k = 2 -> \/ Has(t, {"explain", "explains"}) \/ Ordered(t, {"walk"}, {"through"})
                  \/ Adjacent(t, {"detailed"}, {"explanation"})
      [] k = 3 -> \/ Ordered(t, {"add"}, CommentWords) \/ Adjacent(t, {"more"}, CommentWords)
                  \/ Has(t, {"well-commented", "document", "documented"})
      [] k = 4 -> Ordered(t, {"class"}, {"component", "components"}) \/ Has(t, {"class-based"})
      [] k = 5 -> Ordered(t, {"default"}, {"export", "exports"})
      [] k = 6 -> \/ Ordered(t, {"avoid", "avoids"}, TypeWords) \/ Ordered(t, {"no"}, TypeWords)
                  \/ Ordered(t, {"skip"}, TypeWords)
      [] k = 7 -> \/ Ordered(t, {"plan"}, {"ahead"}) \/ Ordered(t, {"design"}, {"scale"})
                  \/ Has(t, {"future-proof", "futureproof"})
      [] OTHER -> \/ Ordered(t, {"plan", "plans"}, {"first"})
                  \/ Ordered(t, {"design", "designs"}, {"upfront", "before"})
                  \/ Ordered(t, {"spec"}, {"first"})

areStyleOpposites(a, b) ==
    \E k \in 1..8 : \/ StyleLeft(k, a) /\ StyleRight(k, b)
                    \/ StyleRight(k, a) /\ StyleLeft(k, b)

\* newLower.match(/instead of\s+(\S+)/): the word after the first "instead of",
\* or "" when the text has none.
InsteadOfWord(lower) ==
    IF \E i \in 1..(Len(lower) - 2) : lower[i] = "instead" /\ lower[i+1] = "of"
    THEN LET i == CHOOSE k \in 1..(Len(lower) - 2) :
                    /\ lower[k] = "instead" /\ lower[k+1] = "of"
                    /\ \A j \in 1..(k-1) : ~(lower[j] = "instead" /\ lower[j+1] = "of")
         IN lower[i+2]
    ELSE ""

\* lower.match(/avoids?\s+(.+)/)[1]: the words after the first "avoid(s)" that
\* has a word after it; <<>> when there is no match.
AvoidsRest(lower) ==
    IF \E i \in 1..(Len(lower) - 1) : lower[i] \in {"avoid", "avoids"}
    THEN LET i == CHOOSE k \in 1..(Len(lower) - 1) :
                    /\ lower[k] \in {"avoid", "avoids"}
                    /\ \A j \in 1..(k-1) : lower[j] \notin {"avoid", "avoids"}
         IN SubSeq(lower, i + 1, Len(lower))
    ELSE <<>>

\* One round of findContradictions' loop: does the existing text contradict
\* the new one?
Contradicts(oldText, newText) ==
    LET newLower == toLowerCase(newText)
        newCore == extractCore(newText)
        oldLower == toLowerCase(oldText)
        oldCore == extractCore(oldText)
        replaced == InsteadOfWord(newLower)
        oldTool == identifyTool(oldCore)
        newTool == identifyTool(newCore)
        oldAvoids == AvoidsRest(oldLower)
        newAvoids == AvoidsRest(newLower)
    IN \/ /\ replaced # ""
          /\ Has(oldCore, {replaced})
          /\ ~Adjacent(oldCore, {replaced}, {"instead"})
       \/ /\ oldTool.name # "" /\ newTool.name # ""
          /\ oldTool.category = newTool.category
          /\ oldTool.name # newTool.name
       \/ areStyleOpposites(oldLower, newLower)
       \/ oldAvoids # <<>> /\ SimilarityAbove(oldAvoids, newCore, 6, 10)
       \/ newAvoids # <<>> /\ SimilarityAbove(newAvoids, oldCore, 6, 10)

\* Variant of findContradictions that stops at the first contradicted learning.
findContradictions_FirstOnly(L, newText) ==
    LET all == {i \in 1..Len(L) : ~L[i].archived /\ Contradicts(L[i].text, newText)}
    IN {i \in all : \A j \in all : i <= j}

\* findContradictions: the indices of the non-archived learnings the new text
\* contradicts.
findContradictions(L, newText) ==
    {i \in 1..Len(L) : ~L[i].archived /\ Contradicts(L[i].text, newText)}

----------------------------------------------------------------------------
(* The learning store: pure functions from the file's learnings to the      *)
(* learnings a call saves.  L is data.learnings, t the time of the call.    *)

\* Index of the first element of L satisfying P, 0 when there is none
\* (Array.prototype.find).
FirstIndex(L, P(_)) ==
    IF \E i \in 1..Len(L) : P(L[i])
    THEN CHOOSE i \in 1..Len(L) : P(L[i]) /\ \A j \in 1..(i-1) : ~P(L[j])
    ELSE 0

\* slice(-n): the last n elements.
LastN_Uncut(s, n) == s

LastN(s, n) == IF Len(s) > n THEN SubSeq(s, Len(s) - n + 1, Len(s)) ELSE s

Includes(s, x) == \E i \in 1..Len(s) : s[i] = x

\* The entry addCandidate pushes for a signal that matches nothing.
NewCandidate(s, t, id) ==
    LET cls == IF s.classification = "" THEN "PREFERENCE" ELSE s.classification
        certainty == IF s.certainty = "" THEN "high" ELSE s.certainty
        area == IF s.area = "" THEN "general" ELSE s.area
        method == IF s.detection_method = "" THEN "regex" ELSE s.detection_method
    IN [id |-> id,
        text |-> s.text,
        confidence |-> IF s.confidence # 0 THEN s.confidence
                       ELSE START_CONFIDENCE(cls, certainty),
        evidence_count |-> 1,
        scope |-> IF s.scope = "" THEN "repo" ELSE s.scope,
        classification |-> cls,
        area |-> area,
        areas |-> <<area>>,
        last_reinforced |-> t,
        decay_weight |-> One,
        archived |-> FALSE,
        archived_reason |-> "",
        promoted |-> FALSE,
        inferred |-> FALSE,
        detection_method |-> method,
        evidence |-> <<[detected_at |-> t, detection_method |-> method]>>,
        has_session_ids |-> FALSE,
        session_ids |-> <<>>,
        touched_this_session |-> FALSE,
        cross_session_boosted |-> FALSE,
        cross_session_count |-> 0,
        classification_upgraded_from |-> "",
        deep_pattern_upgrade |-> FALSE,
        observation_corroborations |-> 0,
        consolidated_from_group |-> "",
        consolidated_from_ids |-> <<>>,
        consolidated_into |-> 0]

\* Variant of AlignInferred that raises the confidence only.
AlignInferred_ConfidenceOnly(L, s) ==
    LET newCore == extractCore(s.text)
        Aligned(l) == ~l.archived /\ l.inferred /\ similar(extractCore(l.text), newCore)
        i == FirstIndex(L, Aligned)
    IN IF i = 0 THEN L
       ELSE [L EXCEPT ![i] = [@ EXCEPT
                !.confidence = Max(@ + ALIGN_DELTA, ACTIVATION_THRESHOLD)]]

\* addCandidate, first part: an explicit correction that aligns with an
\* inferred observation validates the first such observation.
AlignInferred(L, s) ==
    LET newCore == extractCore(s.text)
        Aligned(l) == ~l.archived /\ l.inferred /\ similar(extractCore(l.text), newCore)
        i == FirstIndex(L, Aligned)
    IN IF i = 0 THEN L
       ELSE [L EXCEPT ![i] = [@ EXCEPT
                !.inferred = FALSE,
                !.confidence = Max(@ + ALIGN_DELTA, ACTIVATION_THRESHOLD),
                !.detection_method = "claude_observation_validated"]]

\* addCandidate's duplicate test of one stored learning against the signal.
IsDuplicateOf(l, s) ==
    LET newCore == extractCore(s.text)
        existingCore == extractCore(l.text)
        sameCore == \/ existingCore = newCore
                    \/ toLowerCase(l.text) = toLowerCase(s.text)
                    \/ similar(existingCore, newCore)
    IN /\ ~l.archived
       /\ sameCore
       /\ ~prefixContradicts(extractPrefix(l.text), extractPrefix(s.text))

\* Variant of Reinforce that records the evidence without counting it.
Reinforce_KeepsCount(e, s, t) ==
    LET deeper == isDeeper(s.classification, e.classification)
        method == IF s.detection_method = "" THEN "regex" ELSE s.detection_method
    IN [e EXCEPT
          !.last_reinforced = t,
          !.confidence = Min(One, @ + REINFORCE_DELTA),
          !.decay_weight = One,
          !.classification = IF deeper THEN s.classification ELSE @,
          !.text = IF deeper /\ TextLength(s.text) > TextLength(e.text) THEN s.text ELSE @,
          !.areas = IF s.area # "" /\ ~Includes(@, s.area) THEN Append(@, s.area) ELSE @,
          !.evidence = LastN(Append(@, [detected_at |-> t, detection_method |-> method]),
                             MAX_EVIDENCE)]

\* Variant of Reinforce that adds to the confidence without the cap at 1.
Reinforce_Uncapped(e, s, t) ==
    LET deeper == isDeeper(s.classification, e.classification)
        method == IF s.detection_method = "" THEN "regex" ELSE s.detection_method
    IN [e EXCEPT
          !.evidence_count = @ + 1,
          !.last_reinforced = t,
          !.confidence = @ + REINFORCE_DELTA,
          !.decay_weight = One,
          !.classification = IF deeper THEN s.classification ELSE @,
          !.text = IF deeper /\ TextLength(s.text) > TextLength(e.text) THEN s.text ELSE @,
          !.areas = IF s.area # "" /\ ~Includes(@, s.area) THEN Append(@, s.area) ELSE @,
          !.evidence = LastN(Append(@, [detected_at |-> t, detection_method |-> method]),
                             MAX_EVIDENCE)]

\* Variant of Reinforce that takes the longer text whatever the classification.
Reinforce_LongerText(e, s, t) ==
    LET deeper == isDeeper(s.classification, e.classification)
        method == IF s.detection_method = "" THEN "regex" ELSE s.detection_method
    IN [e EXCEPT
          !.evidence_count = @ + 1,
          !.last_reinforced = t,
          !.confidence = Min(One, @ + REINFORCE_DELTA),
          !.decay_weight = One,
          !.classification = IF deeper THEN s.classification ELSE @,
          !.text = IF TextLength(s.text) > TextLength(e.text) THEN s.text ELSE @,
          !.areas = IF s.area # "" /\ ~Includes(@, s.area) THEN Append(@, s.area) ELSE @,
          !.evidence = LastN(Append(@, [detected_at |-> t, detection_method |-> method]),
                             MAX_EVIDENCE)]

\* addCandidate's reinforcement of the existing learning e by the signal s.
Reinforce(e, s, t) ==
    LET deeper == isDeeper(s.classification, e.classification)
        method == IF s.detection_method = "" THEN "regex" ELSE s.detection_method
    IN [e EXCEPT
          !.evidence_count = @ + 1,
          !.last_reinforced = t,
          !.confidence = Min(One, @ + REINFORCE_DELTA),
          !.decay_weight = One,
          !.classification = IF deeper THEN s.classification ELSE @,
          !.text = IF deeper /\ TextLength(s.text) > TextLength(e.text) THEN s.text ELSE @,
          !.areas = IF s.area # "" /\ ~Includes(@, s.area) THEN Append(@, s.area) ELSE @,
          !.evidence = LastN(Append(@, [detected_at |-> t, detection_method |-> method]),
                             MAX_EVIDENCE)]

\* addCandidate(learning): the learnings it saves.
addCandidate(L, s, t, id) ==
    LET L1 == AlignInferred(L, s)
        Dup(l) == IsDuplicateOf(l, s)
        i == FirstIndex(L1, Dup)
    IN IF i # 0
       THEN [L1 EXCEPT ![i] = Reinforce(@, s, t)]
       ELSE LET contradicted == findContradictions(L1, s.text)
                L2 == [k \in 1..Len(L1) |->
                         IF k \in contradicted
                         THEN [L1[k] EXCEPT !.archived = TRUE,
                                            !.archived_reason = "Superseded by"]
                         ELSE L1[k]]
            IN Append(L2, NewCandidate(s, t, id))

\* Variant of IsActive that forgets the inferred flag.
IsActive_IgnoringInferred(l, threshold) ==
    ~l.archived /\ ~l.promoted /\ l.confidence >= threshold

\* getActiveLearnings(threshold)
IsActive(l, threshold) ==
    ~l.archived /\ ~l.promoted /\ ~l.inferred /\ l.confidence >= threshold

\* Variant of getActiveLearnings that forgets the confidence threshold.
getActiveLearnings_AnyConfidence(L, threshold) ==
    SelectSeq(L, LAMBDA l : IsActive(l, 0))

getActiveLearnings(L, threshold) ==
    SelectSeq(L, LAMBDA l : IsActive(l, threshold))

\* The entry addObservation pushes for an observation that matches nothing.
NewInferred(o, t, id) ==
    LET area == IF o.area = "" THEN "general" ELSE o.area
    IN [NewCandidate([text |-> o.text, confidence |-> 0, classification |-> o.classification,
                      certainty |-> "", area |-> area, scope |-> "",
                      detection_method |-> "claude_observation"], t, id)
        EXCEPT !.confidence = IF o.confidence # 0 THEN o.confidence ELSE DEFAULT_OBS_CONFIDENCE,
               !.inferred = TRUE,
               !.evidence = <<[detected_at |-> t, detection_method |-> "claude_observation"]>>]

\* Variant of addObservation that also takes archived learnings for a
\* non-inferred match.
addObservation_ArchivedToo(L, o, t, id) ==
    LET newCore == extractCore(o.text)
        Regular(l) == ~l.inferred /\ similar(extractCore(l.text), newCore)
        Inferred(l) == ~l.archived /\ l.inferred /\ similar(extractCore(l.text), newCore)
        r == FirstIndex(L, Regular)
        i == FirstIndex(L, Inferred)
    IN IF r # 0
       THEN [L EXCEPT ![r] = [@ EXCEPT
                !.confidence = Min(One, @ + CORROBORATE_DELTA),
                !.observation_corroborations = @ + 1]]
       ELSE IF i # 0
       THEN [L EXCEPT ![i] = [@ EXCEPT
                !.confidence = Min(@ + INFERRED_REINFORCE_DELTA, INFERRED_CAP),
                !.evidence_count = @ + 1,
                !.last_reinforced = t]]
       ELSE Append(L, NewInferred(o, t, id))

\* addObservation(obs): the learnings it saves.
addObservation(L, o, t, id) ==
    LET newCore == extractCore(o.text)
        Regular(l) == ~l.archived /\ ~l.inferred /\ similar(extractCore(l.text), newCore)
        Inferred(l) == ~l.archived /\ l.inferred /\ similar(extractCore(l.text), newCore)
        r == FirstIndex(L, Regular)
        i == FirstIndex(L, Inferred)
    IN IF r # 0
       THEN [L EXCEPT ![r] = [@ EXCEPT
                !.confidence = Min(One, @ + CORROBORATE_DELTA),
                !.observation_corroborations = @ + 1]]
       ELSE IF i # 0
       THEN [L EXCEPT ![i] = [@ EXCEPT
                !.confidence = Min(@ + INFERRED_REINFORCE_DELTA, INFERRED_CAP),
                !.evidence_count = @ + 1,
                !.last_reinforced = t]]
       ELSE Append(L, NewInferred(o, t, id))

\* acceptObservation(id) / rejectObservation(id): null (no change) unless the
\* id names a non-archived inferred learning.
CanDecide(L, id) ==
    \E i \in 1..Len(L) : L[i].id = id /\ L[i].inferred /\ ~L[i].archived

acceptObservation(L, id) ==
    [i \in 1..Len(L) |->
        IF L[i].id = id /\ CanDecide(L, id)
        THEN [L[i] EXCEPT !.inferred = FALSE,
                          !.confidence = Max(@ + ALIGN_DELTA, ACTIVATION_THRESHOLD),
                          !.detection_method = "claude_observation_accepted"]
        ELSE L[i]]

rejectObservation(L, id) ==
    [i \in 1..Len(L) |->
        IF L[i].id = id /\ CanDecide(L, id)
        THEN [L[i] EXCEPT !.archived = TRUE, !.archived_reason = "Rejected by developer"]
        ELSE L[i]]

\* applyPassiveAccumulation
applyPassiveAccumulation(L, t) ==
    [i \in 1..Len(L) |->
        IF ~L[i].inferred \/ L[i].archived \/ L[i].promoted THEN L[i]
        ELSE [L[i] EXCEPT !.confidence = Min(@ + PASSIVE_DELTA, INFERRED_CAP),
                          !.last_reinforced = t]]

\* getPromotable
getPromotable(L) ==
    SelectSeq(L, LAMBDA l : /\ ~l.archived /\ ~l.promoted
                            /\ l.confidence >= PROMOTION_THRESHOLD
                            /\ l.evidence_count >= PROMOTION_MIN_EVIDENCE)

\* markPromoted(ids)
markPromoted(L, ids) ==
    [i \in 1..Len(L) |-> IF L[i].id \in ids THEN [L[i] EXCEPT !.promoted = TRUE] ELSE L[i]]

\* Variant of DecayOne that multiplies the confidence by the period's factor
\* instead of the accumulated decay_weight.
DecayOne_ByFactor(l, t) ==
    LET since == t - l.last_reinforced
        factor == IF since > DECAY_FAST_DAYS * MINUTES_PER_DAY THEN DECAY_FAST_FACTOR
                  ELSE IF since > DECAY_SLOW_DAYS * MINUTES_PER_DAY THEN DECAY_SLOW_FACTOR
                  ELSE One
        w == IF factor = One THEN l.decay_weight ELSE (l.decay_weight * factor) \div One
        c == IF factor = One THEN l.confidence ELSE (l.confidence * factor) \div One
    IN IF l.archived \/ l.promoted THEN l
       ELSE [l EXCEPT !.decay_weight = w,
                      !.confidence = c,
                      !.archived = (c < ARCHIVE_THRESHOLD),
                      !.archived_reason = IF c < ARCHIVE_THRESHOLD
                                          THEN "Decayed below threshold" ELSE @]

\* applyDecay: one learning.
DecayOne(l, t) ==
    LET since == t - l.last_reinforced
        factor == IF since > DECAY_FAST_DAYS * MINUTES_PER_DAY THEN DECAY_FAST_FACTOR
                  ELSE IF since > DECAY_SLOW_DAYS * MINUTES_PER_DAY THEN DECAY_SLOW_FACTOR
                  ELSE One
        w == IF factor = One THEN l.decay_weight ELSE (l.decay_weight * factor) \div One
        c == IF factor = One THEN l.confidence ELSE (l.confidence * w) \div One
    IN IF l.archived \/ l.promoted THEN l
       ELSE [l EXCEPT !.decay_weight = w,
                      !.confidence = c,
                      !.archived = (c < ARCHIVE_THRESHOLD),
                      !.archived_reason = IF c < ARCHIVE_THRESHOLD
                                          THEN "Decayed below threshold" ELSE @]

applyDecay(L, t) == [i \in 1..Len(L) |-> DecayOne(L[i], t)]

----------------------------------------------------------------------------
(* Cross-session analyzer (lib/cross-session.js).  Session ids given by the *)
(* host are positive integers; the key "estimated_k" is the integer -k.     *)

\* getUniqueSessions, fallback branch: walk the evidence, opening a new
\* estimated session whenever two records are more than 30 minutes apart.
RECURSIVE EstimateSessions(_, _, _, _)
EstimateSessions(ev, lastTime, idx, acc) ==
    IF ev = <<>> THEN acc
    ELSE LET time == Head(ev).detected_at
             idx2 == IF time - lastTime > SESSION_GAP_MINUTES THEN idx + 1 ELSE idx
             acc2 == IF Includes(acc, 0 - idx2) THEN acc ELSE Append(acc, 0 - idx2)
         IN EstimateSessions(Tail(ev), time, idx2, acc2)

getUniqueSessions(l) ==
    IF l.has_session_ids THEN l.session_ids
    ELSE EstimateSessions(l.evidence, 0, 0, <<>>)

\* The loop's session list: the recorded or estimated sessions, plus the
\* current one when the learning carries the touched mark.
SessionsOf(l, sid) ==
    LET base == getUniqueSessions(l)
    IN IF l.touched_this_session /\ ~Includes(base, sid) THEN Append(base, sid) ELSE base

\* Variant of NeedsBoost that boosts in every run that finds three sessions.
NeedsBoost_EveryRun(l, sessions) == Len(sessions) >= CROSS_BOOST_SESSIONS

\* Confidence boost at three sessions, once per learning.
NeedsBoost(l, sessions) ==
    Len(sessions) >= CROSS_BOOST_SESSIONS /\ ~l.cross_session_boosted

CrossBoost(l, sessions) ==
    [l EXCEPT
       !.touched_this_session = FALSE,
       !.has_session_ids = TRUE,
       !.session_ids = sessions,
       !.confidence = IF NeedsBoost(l, sessions) THEN Min(One, @ + CROSS_BOOST_DELTA) ELSE @,
       !.cross_session_boosted = @ \/ NeedsBoost(l, sessions),
       !.cross_session_count = IF Len(sessions) >= CROSS_BOOST_SESSIONS
                               THEN Len(sessions) ELSE @]

\* Classification upgrade at four sessions.
NeedsUpgrade(l, sessions) ==
    /\ Len(sessions) >= UPGRADE_SESSIONS
    /\ l.classification_upgraded_from = ""
    /\ l.classification \in {"PREFERENCE", "BEHAVIORAL_GAP"}

CrossUpgrade(l, sessions) ==
    IF NeedsUpgrade(l, sessions)
    THEN [l EXCEPT !.classification_upgraded_from = l.classification,
                   !.classification = "QUALITY_STANDARD"]
    ELSE l

\* Deep-pattern upgrade at five sessions.
NeedsDeep(l, sessions) ==
    /\ Len(sessions) >= DEEP_UPGRADE_SESSIONS
    /\ ~l.deep_pattern_upgrade
    /\ l.classification = "QUALITY_STANDARD"

CrossDeep(l, sessions) ==
    IF NeedsDeep(l, sessions)
    THEN [l EXCEPT !.deep_pattern_upgrade = TRUE,
                   !.classification_upgraded_from =
                       IF @ = "" THEN l.classification ELSE @,
                   !.classification = "THINKING_PATTERN",
                   !.confidence = Min(One, @ + DEEP_UPGRADE_DELTA)]
    ELSE l

CrossSessionWith(l, sessions) ==
    [l |-> CrossDeep(CrossUpgrade(CrossBoost(l, sessions), sessions), sessions),
     changed |-> \/ l.touched_this_session
                 \/ NeedsBoost(l, sessions)
                 \/ NeedsUpgrade(CrossBoost(l, sessions), sessions)
                 \/ NeedsDeep(CrossUpgrade(CrossBoost(l, sessions), sessions), sessions)]

\* One round of detectCrossSessionPatterns' loop, for a non-terminal learning.
CrossSessionOne(l, sid) == CrossSessionWith(l, SessionsOf(l, sid))

\* detectCrossSessionPatterns(currentSessionId): the learnings on file
\* afterwards.  The loop's result is saved only when something "changed";
\* the session list it computes for an unchanged store is dropped.
detectCrossSessionPatterns(L, sid) ==
    LET Terminal(l) == l.archived \/ l.promoted
        R == [i \in 1..Len(L) |->
                IF Terminal(L[i]) THEN [l |-> L[i], changed |-> FALSE]
                ELSE CrossSessionOne(L[i], sid)]
        changed == \E i \in 1..Len(L) : R[i].changed
    IN IF changed THEN [i \in 1..Len(L) |-> R[i].l] ELSE L

\* markSessionTouch(learningId, sessionId).  Exported by the analyzer; no
\* script or library function of the repository calls it.
markSessionTouch(L, id, sid) ==
    [i \in 1..Len(L) |->
        IF L[i].id = id
        THEN [L[i] EXCEPT !.has_session_ids = TRUE,
                          !.session_ids = IF Includes(@, sid) THEN @ ELSE Append(@, sid),
                          !.touched_this_session = TRUE]
        ELSE L[i]]

----------------------------------------------------------------------------
(* Consolidator (lib/consolidator.js) *)

\* AFFINITY_GROUPS: the groups whose keyword list has a keyword that is a
\* substring of the word w (text.includes(keyword)), for the words of the
\* model's vocabulary.  A word can be in several groups: "loading" holds
\* "load", "prototype" holds "type", "concise" holds "ci".
AffinityOfWord(w) ==
    (IF w \in {"small", "function", "functions", "component", "components", "separate",
               "composable"}
     THEN {"composability"} ELSE {})
    \cup (IF w \in {"user", "users", "loading", "ux"} THEN {"user_empathy"} ELSE {})
    \cup (IF w \in {"error", "errors", "fail", "timeout", "retry", "fallback"}
          THEN {"defensive_design"} ELSE {})
    \cup (IF w \in {"schema", "database", "migration", "api", "prototype"}
          THEN {"data_architecture"} ELSE {})
    \cup (IF w \in {"test", "tests", "tested", "vitest", "logging", "deploy", "ship",
                     "concise"}
          THEN {"shipping_standards"} ELSE {})
    \cup (IF w \in {"simple", "prototype", "mvp", "rough"}
          THEN {"simplicity_pragmatism"} ELSE {})
    \cup (IF w \in {"scale", "performance", "cache", "async", "loading"}
          THEN {"system_thinking"} ELSE {})
    \cup (IF w \in {"readable", "naming", "verbose", "concise", "comment", "comments",
                     "document"}
          THEN {"code_clarity"} ELSE {})

AFFINITY_GROUPS ==
    <<"composability", "user_empathy", "defensive_design", "data_architecture",
      "shipping_standards", "simplicity_pragmatism", "system_thinking", "code_clarity">>

MIN_CLUSTER == 2

TextInGroup(text, g) == \E i \in 1..Len(text) : g \in AffinityOfWord(LowerWord(text[i]))

ClusterPool(L) ==
    SelectSeq(L, LAMBDA l : ~l.archived /\ ~l.promoted /\ l.confidence >= ACTIVATION_THRESHOLD)

ClusterMembers(L, g) == SelectSeq(ClusterPool(L), LAMBDA l : TextInGroup(l.text, g))

\* findClusters: the groups for which a cluster is emitted, in table order.
findClusters(L) ==
    SelectSeq(AFFINITY_GROUPS,
              LAMBDA g : /\ Len(ClusterMembers(L, g)) >= MIN_CLUSTER
                         /\ ~\E i \in 1..Len(ClusterPool(L)) :
                                ClusterPool(L)[i].consolidated_from_group = g)

\* shouldConsolidate
shouldConsolidate(L, m) ==
    /\ Len(SelectSeq(L, LAMBDA l : ~l.archived /\ ~l.promoted)) >= MIN_CONSOLIDATE_ACTIVE
    /\ (m.has_last_consolidation =>
            m.total_sessions - m.consolidation_session >= 5)
    /\ findClusters(L) # <<>>

RECURSIVE SumConfidence(_)
SumConfidence(ms) == IF ms = <<>> THEN 0 ELSE Head(ms).confidence + SumConfidence(Tail(ms))
RECURSIVE SumEvidence(_)
SumEvidence(ms) == IF ms = <<>> THEN 0 ELSE Head(ms).evidence_count + SumEvidence(Tail(ms))
RECURSIVE FlatEvidence(_)
FlatEvidence(ms) == IF ms = <<>> THEN <<>> ELSE Head(ms).evidence \o FlatEvidence(Tail(ms))
RECURSIVE MergeAreas(_, _)
MergeAreas(as, acc) ==
    IF as = <<>> THEN acc
    ELSE MergeAreas(Tail(as), IF Includes(acc, Head(as)) THEN acc ELSE Append(acc, Head(as)))
RECURSIVE FlatAreas(_)
FlatAreas(ms) == IF ms = <<>> THEN <<>> ELSE Head(ms).areas \o FlatAreas(Tail(ms))

\* The learning runConsolidation pushes for one cluster whose synthesis
\* returned the text insight.
ConsolidatedEntry(members, g, insight, t, id) ==
    LET areas == MergeAreas(FlatAreas(members), <<>>)
        base == NewCandidate([text |-> insight, confidence |-> 0,
                              classification |-> "THINKING_PATTERN", certainty |-> "",
                              area |-> "", scope |-> "global",
                              detection_method |-> "consolidation"], t, id)
    IN [base EXCEPT
          !.confidence = Min(9500, (SumConfidence(members) \div Len(members)) + 500),
          !.evidence_count = SumEvidence(members),
          !.area = IF areas = <<>> THEN "architecture" ELSE areas[1],
          !.areas = areas,
          !.consolidated_from_group = g,
          !.consolidated_from_ids = [k \in 1..Len(members) |-> members[k].id],
          !.evidence = LastN(FlatEvidence(members), MAX_EVIDENCE)]

\* runConsolidation: clusters are found once, on the store as it was; each
\* cluster whose synthesis succeeded (its group is in ok) adds one learning
\* and links its members.  Ids are taken from id upwards.
RECURSIVE ConsolidateClusters(_, _, _, _, _, _, _)
ConsolidateClusters(L0, L, groups, ok, insight, t, id) ==
    IF groups = <<>> THEN L
    ELSE LET g == Head(groups)
             members == ClusterMembers(L0, g)
             ids == {members[k].id : k \in 1..Len(members)}
             linked == [i \in 1..Len(L) |->
                          IF L[i].id \in ids THEN [L[i] EXCEPT !.consolidated_into = id]
                          ELSE L[i]]
         IN IF g \in ok
            THEN ConsolidateClusters(L0, Append(linked,
                                                ConsolidatedEntry(members, g, insight, t, id)),
                                     Tail(groups), ok, insight, t, id + 1)
            ELSE ConsolidateClusters(L0, L, Tail(groups), ok, insight, t, id)

runConsolidation(L, ok, insight, t, id) ==
    ConsolidateClusters(L, L, findClusters(L), ok, insight, t, id)

----------------------------------------------------------------------------
(* Profile synthesizer (lib/profiler.js) *)

\* hashLearnings: what the checksum depends on.
hashLearnings(active) ==
    {<<active[i].id, active[i].confidence \div 100, active[i].text>> : i \in 1..Len(active)}

NoProfile == [present |-> FALSE, has_text |-> FALSE, learning_count |-> 0,
              session_count |-> 0, checksum |-> {}]

profileNeedsUpdate(p, L, m) ==
    \/ ~p.present
    \/ p.checksum # hashLearnings(getActiveLearnings(L, ACTIVATION_THRESHOLD))
    \/ m.total_sessions - p.session_count >= PROFILE_STALE_SESSIONS

\* synthesizeProfile: the profile on file afterwards; ok says whether the
\* request succeeded, has_text whether the model returned any text.
synthesizeProfile(p, L, m, cfg, ok, has_text) ==
    LET active == getActiveLearnings(L, ACTIVATION_THRESHOLD)
    IN IF ~cfg.api_key \/ Len(active) < MIN_PROFILE_ACTIVE \/ ~ok THEN p
       ELSE [present |-> TRUE, has_text |-> has_text, learning_count |-> Len(active),
             session_count |-> m.total_sessions, checksum |-> hashLearnings(active)]

----------------------------------------------------------------------------
(* Context builder (lib/skill-writer.js) *)

\* Array.prototype.sort((a, b) => b.confidence - a.confidence): stable,
\* descending confidence.
RECURSIVE InsertByConfidence(_, _)
InsertByConfidence(sorted, l) ==
    IF sorted = <<>> THEN <<l>>
    ELSE IF Head(sorted).confidence >= l.confidence
         THEN <<Head(sorted)>> \o InsertByConfidence(Tail(sorted), l)
         ELSE <<l>> \o sorted

RECURSIVE SortByConfidence(_)
SortByConfidence(ls) ==
    IF ls = <<>> THEN <<>>
    ELSE InsertByConfidence(SortByConfidence(SubSeq(ls, 1, Len(ls) - 1)), ls[Len(ls)])

Lines(section, ls) == [i \in 1..Len(ls) |-> [section |-> section, id |-> ls[i].id, text |-> ls[i].text]]

IsPref(l) == l.classification = "PREFERENCE" \/ l.classification = ""

buildProfileContext(active) ==
    Lines("Specific Conventions", SortByConfidence(SelectSeq(active, IsPref)))

buildStructuredContext(active) ==
    LET sorted == SortByConfidence(active)
        Of(c) == SelectSeq(sorted, LAMBDA l : l.classification = c)
        prefs == SelectSeq(sorted, IsPref)
        Scoped(sc) == SelectSeq(prefs, LAMBDA l : l.scope = sc)
    IN Lines("How They Think", Of("THINKING_PATTERN"))
       \o Lines("Architecture Values", Of("DESIGN_PRINCIPLE"))
       \o Lines("Quality Bar", Of("QUALITY_STANDARD"))
       \o Lines("Watch For", Of("BEHAVIORAL_GAP"))
       \o Lines("General Preferences", Scoped("global"))
       \o Lines("This Project", Scoped("repo"))
       \o Lines("Language-Specific", Scoped("language"))

NoContext == [mode |-> "none", source |-> <<>>, lines |-> <<>>]

\* buildContext(threshold): source is the list of learnings the text is
\* built from, lines the learnings whose text it lists.
buildContext(L, p, threshold) ==
    LET active == getActiveLearnings(L, threshold)
        source == [i \in 1..Len(active) |-> active[i].id]
    IN IF active = <<>> THEN NoContext
       ELSE IF p.present /\ p.has_text /\ Len(active) >= PROFILE_MODE_MIN
       THEN [mode |-> "profile", source |-> source, lines |-> buildProfileContext(active)]
       ELSE [mode |-> "structured", source |-> source, lines |-> buildStructuredContext(active)]

----------------------------------------------------------------------------
(* Bounds of the model and the inputs it draws from *)

MaxOps == 6
MaxTicks == 1
MaxLearnings == 3

TxUsesPnpm == <<"Uses", "pnpm">>
TxUsesNpm == <<"Uses", "npm">>
TxPrefersPnpm == <<"Prefers", "pnpm">>
TxUsesVitest == <<"Uses", "vitest">>
TxSmall == <<"Values", "small", "pure", "tested", "functions">>
TxSmallEverywhere == <<"Values", "small", "pure", "tested", "functions", "everywhere">>
TxSmallAlways == <<"Values", "small", "pure", "tested", "functions", "everywhere", "always">>
TxInsight == <<"Thinks", "in", "composable", "units">>

Signal(text, conf, cls, method) ==
    [text |-> text, confidence |-> conf, classification |-> cls, certainty |-> "high",
     area |-> "general", scope |-> "repo", detection_method |-> method]

Observation(text, conf) ==
    [text |-> text, confidence |-> conf, classification |-> "PREFERENCE", area |-> "general"]

\* Minutes the clock may advance in one step: a pause inside a session,
\* and an absence longer than the slow decay period.
ShortPause == SESSION_GAP_MINUTES + 1
LongAbsence == (DECAY_SLOW_DAYS + 1) * MINUTES_PER_DAY

----------------------------------------------------------------------------
(* State *)

EmptyBuffer == [session_id |-> 0, tool_events |-> <<>>, last_stop_ts |-> 0, analyzed |-> <<>>]

\* CLAUDE.md as the promoter reads it: whether the file exists, whether it
\* holds text the developer wrote, and the bullets of its fenced opentell
\* section, each under its heading (none while the file has no section).
NoFile == [present |-> FALSE, user_text |-> FALSE, section |-> <<>>]

EmptyMeta == [total_sessions |-> 0, has_last_consolidation |-> FALSE, consolidation_session |-> 0]

\* The host's session: its id, whether it is open, the turns it has had and
\* the tail of its transcript that getLastPairs(path, 3) reads.
NoSession == [id |-> 0, phase |-> "idle", turns |-> 0, transcript |-> <<>>]

\* The processes next to the hooks: the detached classifier workers not yet
\* run, the session-end hook suspended in its WAL drain, and the racing
\* addCandidate callers of SpecRace.
NoProcs == [session |-> NoSession, workers |-> <<>>,
            se |-> [pc |-> "idle", queue |-> <<>>], race |-> <<>>]

DefaultConfig == [api_key |-> TRUE, paused |-> FALSE, confidence_threshold |-> DEFAULT_THRESHOLD,
                  max_learnings |-> DEFAULT_MAX_LEARNINGS]

\* ops, ticks: steps taken; last, fp: the step just taken and the pair it was
\* about; appended: the pairs this session wrote to the WAL; classified: the
\* pairs a worker classified; at_begin, submitted, failed: the WAL when the
\* last session-end began, the pairs it gave to the classifier, and the first
\* pair whose classification failed in it (0: none); touched: the learnings
\* addCandidate created or reinforced in this session; inserted, inserts:
\* "Prefers pnpm" was inserted in this session, and the number of closed
\* sessions it was inserted in; base: the store two racing callers began on;
\* exit: the exit code of the last hook process (0 while none has run);
\* log, drained: the entries handed to appendWal since the last clearWal, and
\* what the last drainWal returned (kept where the three are called one by
\* one); stored: the pairs of the WAL for which a worker called addCandidate;
\* again: the first of them for which addCandidate was called a second time
\* (0: none); ran: the pairs of the transcript, by their place in it, that
\* turn-stop ran the detector and the observer on since the last
\* session-start; rerun: the first place it ran them on a second time (0:
\* none); recorded: the tool events the tool-use hook has put in the buffer
\* since it was last cleared (the buffer holds the last of them, in order);
\* examined: those of them, by their number, that turn-stop gave to the
\* tool-signal detector; reexamined: the first it gave a second time (0:
\* none); counts: the session counts of three or more that the runs of the
\* cross-session analyzer have found for a non-terminal learning.
NoHist == [ops |-> 0, ticks |-> 0, last |-> "init", fp |-> 0, exit |-> 0, counts |-> {},
           log |-> <<>>, drained |-> <<>>, stored |-> {}, again |-> 0,
           ran |-> {}, rerun |-> 0, recorded |-> 0, examined |-> {}, reexamined |-> 0,
           appended |-> {}, classified |-> {},
           at_begin |-> {}, submitted |-> {}, failed |-> 0,
           touched |-> {}, inserted |-> FALSE, inserts |-> 0, base |-> <<>>]

InitStore ==
    /\ learnings = <<>>
    /\ meta = EmptyMeta
    /\ wal = <<>>
    /\ buffer = EmptyBuffer
    /\ profile = NoProfile
    /\ now = MINUTES_PER_DAY
    /\ nextId = 1
    /\ procs = NoProcs
    /\ context = NoContext
    /\ claudeMd = NoFile
    /\ hist = NoHist

Init == InitStore /\ config = DefaultConfig

\* Every step of the model is counted and named.
Count(op) == hist' = [hist EXCEPT !.ops = @ + 1, !.last = op]

\* The store is written as a whole; ids are drawn only for the rows added,
\* and it grows to MaxLearnings rows at most.
SaveLearnings(L) ==
    /\ Len(L) > Len(learnings) => Len(L) <= MaxLearnings
    /\ learnings' = L
    /\ nextId' = nextId + (Len(L) - Len(learnings))

----------------------------------------------------------------------------
(* Store API calls *)

AddCandidateOp(s) ==
    /\ SaveLearnings(addCandidate(learnings, s, now, nextId))
    /\ Count("addCandidate")
    /\ UNCHANGED <<meta, wal, buffer, profile, config, now, procs, context, claudeMd>>

AddObservationOp(o) ==
    /\ SaveLearnings(addObservation(learnings, o, now, nextId))
    /\ Count("addObservation")
    /\ UNCHANGED <<meta, wal, buffer, profile, config, now, procs, context, claudeMd>>

\* "accept <n>" / "reject <n>" of the command line: n indexes the inferred
\* learnings on file.
InferredIds == {learnings[i].id : i \in {k \in 1..Len(learnings) :
                    LET l == learnings[k] IN ~l.archived /\ ~l.promoted /\ l.inferred}}

AcceptOp(id) ==
    /\ SaveLearnings(acceptObservation(learnings, id))
    /\ Count("accept")
    /\ UNCHANGED <<meta, wal, buffer, profile, config, now, procs, context, claudeMd>>

RejectOp(id) ==
    /\ SaveLearnings(rejectObservation(learnings, id))
    /\ Count("reject")
    /\ UNCHANGED <<meta, wal, buffer, profile, config, now, procs, context, claudeMd>>

Bullets(heading, ls) == [i \in 1..Len(ls) |-> [heading |-> heading, text |-> ls[i].text]]

\* The section promoteToClaudeMd builds from the promotable learnings.
SectionLines(promotable) ==
    Bullets("How We Build", SelectSeq(promotable, LAMBDA l : l.classification = "THINKING_PATTERN"))
    \o Bullets("Architecture", SelectSeq(promotable, LAMBDA l : l.classification = "DESIGN_PRINCIPLE"))
    \o Bullets("Quality Standards", SelectSeq(promotable, LAMBDA l : l.classification = "QUALITY_STANDARD"))
    \o Bullets("Conventions", SelectSeq(promotable, LAMBDA l : l.classification = "PREFERENCE"))
    \o Bullets("Common Gaps to Watch", SelectSeq(promotable, LAMBDA l : l.classification = "BEHAVIORAL_GAP"))

\* The file promoteToClaudeMd writes: the new block in place of the old
\* section, after the developer's text, or alone in a new file.
WriteSection(file, block) ==
    [present |-> TRUE, user_text |-> file.user_text, section |-> block]

\* "promote" of the command line (promoteToClaudeMd): the promotable
\* learnings are written to CLAUDE.md as its opentell section and marked
\* promoted.
PromoteOp ==
    LET promotable == getPromotable(learnings)
    IN /\ promotable # <<>>
       /\ claudeMd' = WriteSection(claudeMd, SectionLines(promotable))
       /\ SaveLearnings(markPromoted(learnings, {promotable[i].id : i \in 1..Len(promotable)}))
       /\ Count("promote")
       /\ UNCHANGED <<meta, wal, buffer, profile, config, now, procs, context>>

Tick(d) ==
    /\ now' = now + d
    /\ hist' = [hist EXCEPT !.ops = @ + 1, !.ticks = @ + 1, !.last = "tick"]
    /\ UNCHANGED <<learnings, meta, wal, buffer, profile, config, nextId, procs, context, claudeMd>>

----------------------------------------------------------------------------
(* Write-ahead log of ambiguous pairs (store.js).  A pair is known by the  *)
(* fingerprint of what was said; written_at = 0 is a payload without the   *)
(* field.                                                                   *)

appendWal(W, pair, t) == Append(W, [pair EXCEPT !.written_at = t])

\* drainWal reads the file and parses its lines; it writes nothing.
drainWal_DroppingNewest(W) == SubSeq(W, 1, Len(W) - 1)

drainWal(W) == W

\* clearWal empties the file.
\* Variant of clearWal that leaves the file as it is.
clearWal_Keeping(W) == W

clearWal(W) == <<>>

removeFromWal(W, pair) == SelectSeq(W, LAMBDA e : e.written_at # pair.written_at)

InWal(W, fp) == \E i \in 1..Len(W) : W[i].fp = fp

Fingerprints(W) == {W[i].fp : i \in 1..Len(W)}

----------------------------------------------------------------------------
(* Hooks *)

\* Every hook is  async function main() { try { ... process.exit(0) }
\* catch (e) { log(...); process.exit(0) } }  followed by  main().  thrown: the
\* try block threw; handlerThrown: the catch block threw as well, which
\* rejects the promise of main() and ends the process with node's code 1.
ExitCode_Rethrown(thrown, handlerThrown) == IF thrown THEN 1 ELSE 0

ExitCode(thrown, handlerThrown) == IF thrown /\ handlerThrown THEN 1 ELSE 0

EffectiveThreshold(cfg) ==
    IF cfg.confidence_threshold = 0 THEN DEFAULT_THRESHOLD ELSE cfg.confidence_threshold

\* session-start hook: reset the buffer, decay, count the session, emit the
\* context.
SessionStart ==
    /\ procs.session.phase # "open"
    /\ procs.se.pc = "idle"
    /\ procs' = [procs EXCEPT !.session = [id |-> @.id + 1, phase |-> "open",
                                           turns |-> 0, transcript |-> <<>>]]
    /\ hist' = [hist EXCEPT !.ops = @ + 1, !.last = "session-start",
                            !.exit = ExitCode(FALSE, FALSE),
                            !.touched = {}, !.inserted = FALSE, !.ran = {},
                            !.recorded = IF config.paused THEN @ ELSE 0,
                            !.examined = IF config.paused THEN @ ELSE {},
                            !.appended = {}, !.classified = {}]
    /\ IF config.paused
       THEN UNCHANGED <<learnings, meta, wal, buffer, profile, config, now, nextId, context, claudeMd>>
       ELSE LET L == applyDecay(learnings, now)
            IN /\ buffer' = EmptyBuffer
               /\ learnings' = L
               /\ meta' = [meta EXCEPT !.total_sessions = @ + 1]
               /\ context' = buildContext(L, profile, EffectiveThreshold(config))
               /\ UNCHANGED <<wal, profile, config, now, nextId, claudeMd>>

\* session-end hook, everything after the WAL drain: cross-session analysis,
\* consolidation, profile synthesis, passive accumulation, decay, cleanup.
\* okGroups, profileOk and profileText are the outcomes of the requests to
\* the language model.
ConsolidationStep(L1, okGroups) ==
    IF shouldConsolidate(L1, meta)
    THEN runConsolidation(L1, okGroups, TxInsight, now, nextId) ELSE L1

markConsolidationRun(m, consolidated) ==
    IF consolidated
    THEN [m EXCEPT !.has_last_consolidation = TRUE, !.consolidation_session = m.total_sessions]
    ELSE m

ProfileStep(L2, m2, profileOk, profileText) ==
    IF profileNeedsUpdate(profile, L2, m2)
    THEN synthesizeProfile(profile, L2, m2, config, profileOk, profileText)
    ELSE profile

GroupOutcomes(L1) ==
    IF config.api_key /\ shouldConsolidate(L1, meta)
    THEN SUBSET Range(findClusters(L1)) ELSE {{}}

ProfileOutcomes(L2, m2) ==
    IF config.api_key /\ profileNeedsUpdate(profile, L2, m2)
       /\ Len(getActiveLearnings(L2, ACTIVATION_THRESHOLD)) >= MIN_PROFILE_ACTIVE
    THEN {<<FALSE, FALSE>>, <<TRUE, FALSE>>, <<TRUE, TRUE>>} ELSE {<<FALSE, FALSE>>}

SessionEndTail(L0, sid) ==
    \E L1 \in {detectCrossSessionPatterns(L0, sid)} :
    \E okGroups \in GroupOutcomes(L1) :
    \E L2 \in {ConsolidationStep(L1, okGroups)} :
    \E m2 \in {markConsolidationRun(meta, Len(L2) > Len(L1))} :
    \E po \in ProfileOutcomes(L2, m2) :
       /\ SaveLearnings(applyDecay(applyPassiveAccumulation(L2, now), now))
       /\ meta' = m2
       /\ profile' = ProfileStep(L2, m2, po[1], po[2])
       /\ wal' = clearWal(wal)
       /\ buffer' = EmptyBuffer

\* session-end hook when the WAL holds nothing to classify (no entries, or no
\* API key): the hook runs without a suspension point.
CloseSession ==
    /\ procs' = [procs EXCEPT !.session.phase = "closed", !.se = [pc |-> "idle", queue |-> <<>>]]
    /\ hist' = [hist EXCEPT !.ops = @ + 1, !.last = "session-end",
                            !.exit = ExitCode(FALSE, FALSE),
                            !.recorded = IF config.paused THEN @ ELSE 0,
                            !.examined = IF config.paused THEN @ ELSE {},
                            !.inserts = IF hist.inserted THEN @ + 1 ELSE @,
                            !.at_begin = IF procs.se.pc = "idle" THEN Fingerprints(wal) ELSE @,
                            !.submitted = IF procs.se.pc = "idle" THEN {} ELSE @,
                            !.failed = IF procs.se.pc = "idle" THEN 0 ELSE @]

SessionEndQuiet ==
    /\ procs.session.phase = "open"
    /\ procs.se.pc = "idle"
    /\ CloseSession
    /\ IF config.paused
       THEN UNCHANGED <<learnings, meta, wal, buffer, profile, config, now, nextId, context, claudeMd>>
       ELSE /\ wal = <<>> \/ ~config.api_key
            /\ SessionEndTail(learnings, procs.session.id)
            /\ UNCHANGED <<config, now, context, claudeMd>>

----------------------------------------------------------------------------
(* Tool events (scripts/on-post-tool-use.js, lib/tool-signals.js).  The    *)
(* events drawn are Bash commands, given as their words; the patterns of   *)
(* detectToolSignals over test runners and written files need events that  *)
(* are not drawn.                                                           *)

MAX_TOOL_EVENTS == 100
TOOL_SIGNAL_CONFIDENCE == 7200
PACKAGE_MANAGERS == {"npm", "pnpm", "yarn", "bun"}

matchPackageManager(command) ==
    IF command # <<>> /\ command[1] \in PACKAGE_MANAGERS THEN command[1] ELSE ""

ToolSignal(to, from) ==
    [text |-> <<"Uses", to, EmDash, "not", from>>, confidence |-> TOOL_SIGNAL_CONFIDENCE,
     classification |-> "PREFERENCE", certainty |-> "high", area |-> "general",
     scope |-> "repo", detection_method |-> "tool_pattern"]

\* detectToolSignals, pattern 1: two consecutive Bash commands of the turn
\* that use different package managers.
detectToolSignals(toolEvents) ==
    LET bash == SelectSeq(toolEvents, LAMBDA e : e.tool = "Bash" /\ e.command # <<>>)
        pm(i) == matchPackageManager(bash[i].command)
        positions == [i \in 1..(Len(bash) - 1) |-> i]
        hits == SelectSeq(positions,
                          LAMBDA i : pm(i) # "" /\ pm(i + 1) # "" /\ pm(i) # pm(i + 1))
    IN [k \in 1..Len(hits) |-> ToolSignal(pm(hits[k] + 1), pm(hits[k]))]

\* post-tool-use hook for a Bash command.  The hook's clock has milliseconds,
\* the model's has minutes: a tool use is taken only when the clock has moved
\* since the last turn-stop, as Date.now() has.
ToolUse(command) ==
    /\ procs.session.phase = "open"
    /\ procs.se.pc = "idle"
    /\ now > buffer.last_stop_ts
    /\ hist' = [hist EXCEPT !.ops = @ + 1, !.last = "tool-use",
                            !.exit = ExitCode(FALSE, FALSE),
                            !.recorded = IF config.paused \/ command = <<>> THEN @ ELSE @ + 1]
    /\ IF config.paused \/ command = <<>>
       THEN UNCHANGED buffer
       ELSE buffer' = [buffer EXCEPT !.tool_events =
                         LastN(Append(@, [tool |-> "Bash", command |-> command, ts |-> now]),
                               MAX_TOOL_EVENTS)]
    /\ UNCHANGED <<learnings, meta, wal, profile, config, now, nextId, procs, context, claudeMd>>

----------------------------------------------------------------------------
(* turn-stop hook (the Stop hook)                                           *)

MAX_ANALYZED == 200
PAIRS_READ == 3
PAIRS_ANALYZED == 2

\* A pair of the transcript, with what the patterns of the regex detector
\* match in it (signals), whether isNoise holds of what the developer said,
\* and what the observer finds in it.
Pair(fp, signals, noise, validated, observations) ==
    [fp |-> fp, signals |-> signals, noise |-> noise,
     validated |-> validated, observations |-> observations]

hashPair(pair) == pair.fp

\* Ids are drawn in the order the rows are added.
FreshId(L) == nextId + (Len(L) - Len(learnings))

RECURSIVE AddCandidates(_, _, _)
AddCandidates(L, signals, t) ==
    IF signals = <<>> THEN L
    ELSE AddCandidates(addCandidate(L, Head(signals), t, FreshId(L)), Tail(signals), t)

RECURSIVE AddObservations(_, _, _)
AddObservations(L, observations, t) ==
    IF observations = <<>> THEN L
    ELSE AddObservations(addObservation(L, Head(observations), t, FreshId(L)),
                         Tail(observations), t)

\* Variant of detectSignals that matches the patterns before it looks for
\* noise.
detectSignals_PatternsFirst(pair) ==
    [detected |-> pair.signals # <<>>, signals |-> pair.signals, noise |-> pair.noise]

\* detectSignals: noise is tested first and ends the detection.
detectSignals(pair) ==
    IF pair.noise THEN [detected |-> FALSE, signals |-> <<>>, noise |-> TRUE]
    ELSE [detected |-> pair.signals # <<>>, signals |-> pair.signals, noise |-> FALSE]

Ambiguous(pair) == ~detectSignals(pair).detected /\ ~detectSignals(pair).noise

\* The payload handed to appendWal and, encoded, to the worker.
Payload(pair) == [fp |-> pair.fp, written_at |-> 0]

PairCandidates(L, pair, t) ==
    IF detectSignals(pair).detected THEN AddCandidates(L, detectSignals(pair).signals, t)
    ELSE L

PairObservations(L, pair, t) ==
    IF pair.validated # <<>> THEN AddCandidates(L, pair.validated, t)
    ELSE AddObservations(L, pair.observations, t)

\* Variant of ProcessPair that does not look the fingerprint up.
ProcessPair_NoSkip(st, pair, t) ==
    [L |-> PairObservations(PairCandidates(st.L, pair, t), pair, t),
     W |-> IF Ambiguous(pair) THEN appendWal(st.W, Payload(pair), t) ELSE st.W,
     spawned |-> IF Ambiguous(pair) THEN Append(st.spawned, Payload(pair))
                 ELSE st.spawned,
     analyzed |-> LastN(Append(st.analyzed, hashPair(pair)), MAX_ANALYZED),
     ran |-> Append(st.ran, TRUE)]

\* One round of the hook's loop over the pairs; ran tells, round by round,
\* whether the detector and the observer ran.
ProcessPair(st, pair, t) ==
    IF Includes(st.analyzed, hashPair(pair)) THEN [st EXCEPT !.ran = Append(@, FALSE)]
    ELSE [L |-> PairObservations(PairCandidates(st.L, pair, t), pair, t),
          W |-> IF Ambiguous(pair) THEN appendWal(st.W, Payload(pair), t) ELSE st.W,
          spawned |-> IF Ambiguous(pair) THEN Append(st.spawned, Payload(pair))
                      ELSE st.spawned,
          analyzed |-> LastN(Append(st.analyzed, hashPair(pair)), MAX_ANALYZED),
          ran |-> Append(st.ran, TRUE)]

RECURSIVE ProcessPairs(_, _, _)
ProcessPairs(st, pairs, t) ==
    IF pairs = <<>> THEN st
    ELSE ProcessPairs(ProcessPair(st, Head(pairs), t), Tail(pairs), t)

\* The learnings an addCandidate call created or reinforced between two
\* contents of the store.
TouchedIds(L, L2) ==
    {L2[i].id : i \in {k \in 1..Len(L2) :
        IF k > Len(L) THEN ~L2[k].inferred ELSE L2[k].evidence # L[k].evidence}}

InsertsPrefersPnpm(pairs, analyzed) ==
    \E k \in 1..Len(pairs) :
       /\ ~Includes(analyzed, hashPair(pairs[k]))
       /\ \E j \in 1..Len(detectSignals(pairs[k]).signals) :
             /\ detectSignals(pairs[k]).signals[j].text = <<"Prefers", "pnpm">>
             /\ detectSignals(pairs[k]).signals[j].confidence = START_CONFIDENCE("PREFERENCE", "high")
             /\ detectSignals(pairs[k]).signals[j].classification = "PREFERENCE"

\* The places in the transcript of the pairs the loop ran on: its rounds are
\* over the last pairs of a transcript of n pairs.
RanOn(ran, n) == {n - Len(ran) + k : k \in {j \in 1..Len(ran) : ran[j]}}

\* Variant of sinceLastStop that takes every buffered event.
sinceLastStop_Always(e, lastStopTs) == TRUE

\* The filter on the buffered tool events: those of the current turn.
sinceLastStop(e, lastStopTs) == e.ts > lastStopTs

\* The numbers of the tool events the filter lets through.
ExaminedNow ==
    {hist.recorded - Len(buffer.tool_events) + i :
        i \in {j \in 1..Len(buffer.tool_events) :
                  sinceLastStop(buffer.tool_events[j], buffer.last_stop_ts)}}

\* The hook on a transcript of n pairs, of which tail are the last ones.
StopHook(tail, n, stop_hook_active) ==
    /\ procs.session.phase = "open"
    /\ procs.se.pc = "idle"
    /\ IF config.paused \/ stop_hook_active
       THEN /\ procs' = [procs EXCEPT !.session.transcript = tail, !.session.turns = n]
            /\ hist' = [hist EXCEPT !.ops = @ + 1, !.last = "turn-stop",
                                    !.exit = ExitCode(FALSE, FALSE)]
            /\ UNCHANGED <<learnings, meta, wal, buffer, profile, config, now, nextId, context, claudeMd>>
       ELSE \E events \in {SelectSeq(buffer.tool_events,
                                     LAMBDA e : sinceLastStop(e, buffer.last_stop_ts))} :
            \E st \in {ProcessPairs([L |-> AddCandidates(learnings, detectToolSignals(events), now),
                                     W |-> wal, spawned |-> <<>>, analyzed |-> buffer.analyzed,
                                     ran |-> <<>>],
                                    LastN(tail, PAIRS_ANALYZED), now)} :
               /\ SaveLearnings(st.L)
               /\ wal' = st.W
               /\ buffer' = [buffer EXCEPT !.session_id = procs.session.id,
                                           !.last_stop_ts = now,
                                           !.analyzed = st.analyzed]
               /\ procs' = [procs EXCEPT !.session.transcript = tail,
                                         !.session.turns = n,
                                         !.workers = @ \o st.spawned]
               /\ hist' = [hist EXCEPT
                             !.ops = @ + 1, !.last = "turn-stop",
                             !.exit = ExitCode(FALSE, FALSE),
                             !.examined = @ \cup ExaminedNow,
                             !.reexamined = IF @ = 0 /\ hist.examined \cap ExaminedNow # {}
                                            THEN CHOOSE k \in hist.examined \cap ExaminedNow : TRUE
                                            ELSE @,
                             !.ran = @ \cup RanOn(st.ran, n),
                             !.rerun = IF @ = 0 /\ hist.ran \cap RanOn(st.ran, n) # {}
                                       THEN CHOOSE k \in hist.ran \cap RanOn(st.ran, n) : TRUE
                                       ELSE @,
                             !.touched = @ \cup TouchedIds(learnings, st.L),
                             !.appended = @ \cup Fingerprints(st.spawned),
                             !.inserted = @ \/ InsertsPrefersPnpm(LastN(tail, PAIRS_ANALYZED),
                                                                  buffer.analyzed)]
               /\ UNCHANGED <<meta, profile, config, now, context, claudeMd>>

\* The host appends the turn's pair p to the transcript and runs the hook.
TurnStop(p, stop_hook_active) ==
    StopHook(LastN(Append(procs.session.transcript, p), PAIRS_READ),
             procs.session.turns + 1, stop_hook_active)

\* The hook runs once more on the transcript as it is.
TurnStopAgain ==
    /\ procs.session.transcript # <<>>
    /\ StopHook(procs.session.transcript, procs.session.turns, FALSE)

----------------------------------------------------------------------------
(* Background classifier worker (scripts/classify-bg.js) and the WAL drain  *)
(* of the session-end hook                                                   *)

\* What classifySingle can come to: a learning, a classification that is not
\* a learning, a reply that does not parse (returned as classification
\* ERROR), a network error or non-OK status (thrown).
ClassifierOutcomes == {"learning", "not_learning", "parse_failure", "network_error"}

ClassifierFailed(outcome) == outcome \in {"parse_failure", "network_error"}

\* The candidate both callers build from a learning-type classification.
ClassifiedSignal ==
    [text |-> <<"Uses", "pnpm">>, confidence |-> START_CONFIDENCE("PREFERENCE", "high"),
     classification |-> "PREFERENCE", certainty |-> "high", area |-> "general",
     scope |-> "global", detection_method |-> "llm"]

AfterClassification(L, outcome, t) ==
    IF outcome = "learning" THEN addCandidate(L, ClassifiedSignal, t, FreshId(L)) ELSE L

RemoveAt(seq, i) == SubSeq(seq, 1, i - 1) \o SubSeq(seq, i + 1, Len(seq))

\* The worker spawned for the i-th pending payload runs to its exit.
WorkerRun(i, outcome) ==
    /\ i \in 1..Len(procs.workers)
    /\ procs' = [procs EXCEPT !.workers = RemoveAt(@, i)]
    /\ hist' = [hist EXCEPT
                  !.ops = @ + 1,
                  !.fp = procs.workers[i].fp,
                  !.last = IF ~config.api_key THEN "worker-exit"
                           ELSE IF ClassifierFailed(outcome) THEN "worker-failed"
                           ELSE "worker-classified",
                  !.classified = IF config.api_key /\ ~ClassifierFailed(outcome)
                                 THEN @ \cup {procs.workers[i].fp} ELSE @,
                  !.stored = IF config.api_key /\ outcome = "learning"
                             THEN @ \cup {procs.workers[i].fp} ELSE @,
                  !.again = IF @ = 0 /\ config.api_key /\ outcome = "learning"
                               /\ procs.workers[i].fp \in hist.stored
                            THEN procs.workers[i].fp ELSE @]
    /\ IF ~config.api_key \/ outcome = "network_error"
       THEN UNCHANGED <<learnings, nextId, wal>>
       ELSE /\ SaveLearnings(AfterClassification(learnings, outcome, now))
            /\ wal' = IF procs.workers[i].written_at # 0
                      THEN removeFromWal(wal, procs.workers[i]) ELSE wal
    /\ UNCHANGED <<meta, buffer, profile, config, now, context, claudeMd>>

\* The worker is killed, or was never started.
WorkerCrash(i) ==
    /\ i \in 1..Len(procs.workers)
    /\ procs' = [procs EXCEPT !.workers = RemoveAt(@, i)]
    /\ hist' = [hist EXCEPT !.ops = @ + 1, !.last = "worker-crashed",
                            !.fp = procs.workers[i].fp]
    /\ UNCHANGED <<learnings, meta, wal, buffer, profile, config, now, nextId, context, claudeMd>>

\* session-end hook up to its first request to the classifier.
SessionEndBegin ==
    /\ procs.session.phase = "open"
    /\ procs.se.pc = "idle"
    /\ ~config.paused
    /\ wal # <<>> /\ config.api_key
    /\ procs' = [procs EXCEPT !.se = [pc |-> "drain",
                                      queue |-> SubSeq(drainWal(wal), 1,
                                                       Min(Len(wal), WAL_DRAIN_CAP))]]
    /\ hist' = [hist EXCEPT !.ops = @ + 1, !.last = "session-end-begin",
                            !.at_begin = Fingerprints(wal), !.submitted = {}, !.failed = 0]
    /\ UNCHANGED <<learnings, meta, wal, buffer, profile, config, now, nextId, context, claudeMd>>

\* One round of the drain loop: the classifier answers for the next pair.
SessionEndClassify(outcome) ==
    /\ procs.se.pc = "drain"
    /\ procs.se.queue # <<>>
    /\ procs' = [procs EXCEPT !.se.queue = Tail(@)]
    /\ hist' = [hist EXCEPT
                  !.ops = @ + 1, !.last = "session-end-classify",
                  !.fp = Head(procs.se.queue).fp,
                  !.submitted = @ \cup {Head(procs.se.queue).fp},
                  !.again = IF @ = 0 /\ outcome = "learning"
                               /\ Head(procs.se.queue).fp \in hist.stored
                            THEN Head(procs.se.queue).fp ELSE @,
                  !.failed = IF @ = 0 /\ ClassifierFailed(outcome)
                             THEN Head(procs.se.queue).fp ELSE @]
    /\ SaveLearnings(AfterClassification(learnings, outcome, now))
    /\ UNCHANGED <<meta, wal, buffer, profile, config, now, context, claudeMd>>

\* The rest of the hook once the drain loop is through.
SessionEndFinish ==
    /\ procs.se.pc = "drain"
    /\ procs.se.queue = <<>>
    /\ CloseSession
    /\ SessionEndTail(learnings, procs.session.id)
    /\ UNCHANGED <<config, now, context, claudeMd>>

----------------------------------------------------------------------------
(* The store under command-line and hook use, one call at a time *)

StoreSignals ==
    {Signal(TxUsesPnpm, 3500, "PREFERENCE", "regex"),
     Signal(TxUsesNpm, 3500, "PREFERENCE", "regex")}

\* An observation whose own confidence is above the activation threshold.
StoreObservations == {Observation(TxUsesPnpm, 5000)}

\* The run is cut at MaxOps steps.
Within == hist.ops < MaxOps

Next ==
    \/ Within /\ \E s \in StoreSignals : AddCandidateOp(s)
    \/ Within /\ \E o \in StoreObservations : AddObservationOp(o)
    \/ Within /\ \E id \in InferredIds : AcceptOp(id)
    \/ Within /\ \E id \in InferredIds : RejectOp(id)
    \/ Within /\ PromoteOp
    \/ Within /\ SessionStart
    \/ Within /\ SessionEndQuiet
    \/ Within /\ hist.ticks < MaxTicks /\ Tick(LongAbsence)

Spec == Init /\ [][Next]_vars

----------------------------------------------------------------------------
(* Properties of the store under Spec *)

Ids(seq) == {seq[i].id : i \in 1..Len(seq)}

ById(L, id) == L[CHOOSE i \in 1..Len(L) : L[i].id = id]

IsAddCandidateStep == \E s \in StoreSignals : AddCandidateOp(s)

IsAddObservationStep == \E o \in StoreObservations : AddObservationOp(o)

SameEvidenceState(a, b) ==
    /\ a.confidence = b.confidence
    /\ a.evidence_count = b.evidence_count
    /\ a.evidence = b.evidence
    /\ a.last_reinforced = b.last_reinforced

\* C1 (as stated): once a learning is archived or promoted, no later
\* addCandidate or addObservation call changes its confidence, its
\* evidence_count, its evidence list or its last_reinforced.
C1_TerminalUntouchedByAdds ==
    [][(IsAddCandidateStep \/ IsAddObservationStep) =>
         \A i \in 1..Len(learnings) :
            (learnings[i].archived \/ learnings[i].promoted) =>
                SameEvidenceState(learnings[i], learnings'[i])]_vars

\* C1, the half the code keeps: an archived learning is not changed by
\* addCandidate or addObservation.
C1_ArchivedUntouchedByAdds ==
    [][(IsAddCandidateStep \/ IsAddObservationStep) =>
         \A i \in 1..Len(learnings) :
            learnings[i].archived => learnings'[i] = learnings[i]]_vars

\* A promoted learning has just been reinforced by addCandidate: it holds
\* more evidence than promotion requires of it and was promoted before.
C1_PromotedReinforced ==
    /\ hist.last = "addCandidate"
    /\ \E i \in 1..Len(learnings) :
          /\ learnings[i].promoted
          /\ learnings[i].evidence_count > PROMOTION_MIN_EVIDENCE

ContextEligible(l) ==
    ~l.archived /\ ~l.promoted /\ ~l.inferred /\ l.confidence >= config.confidence_threshold

----------------------------------------------------------------------------
(* Deduplication: addCandidate and addObservation calls from an empty store *)

DedupSignals ==
    {Signal(TxSmall, 0, "QUALITY_STANDARD", "llm"),
     Signal(TxSmallAlways, 0, "QUALITY_STANDARD", "llm"),
     Signal(TxSmallEverywhere, 0, "THINKING_PATTERN", "llm")}

NextDedup ==
    \/ Within /\ \E s \in DedupSignals : AddCandidateOp(s)
    \/ Within /\ \E o \in StoreObservations : AddObservationOp(o)

SpecDedup == Init /\ [][NextDedup]_vars

Duplicates(a, b) ==
    /\ \/ extractCore(a.text) = extractCore(b.text)
       \/ similar(extractCore(a.text), extractCore(b.text))
    /\ ~prefixContradicts(extractPrefix(a.text), extractPrefix(b.text))

\* C4 (as stated): after any sequence of addCandidate and addObservation
\* calls from an empty store, no two distinct non-archived learnings have
\* identical cores, or cores with Jaccard similarity above 0.7, under
\* prefixes that do not contradict; also after a reinforcement replaced a
\* text.
C4_NoDuplicateLearnings ==
    \A i, j \in 1..Len(learnings) :
       (i # j /\ ~learnings[i].archived /\ ~learnings[j].archived) =>
          ~Duplicates(learnings[i], learnings[j])

----------------------------------------------------------------------------
(* One session whose turn-stop hooks left pairs in the WAL, with the        *)
(* workers and the session-end hook                                          *)

MaxBacklog == 11
MaxTurns == 2

AmbiguousPair(fp) == Pair(fp, <<>>, FALSE, <<>>, <<>>)

\* The WAL after turn-stop hooks wrote the ambiguous pairs 1..k, one a
\* minute, and every worker spawned for them crashed.
Backlog(k) == [i \in 1..k |-> [fp |-> i, written_at |-> MINUTES_PER_DAY + i]]

InitWal ==
    \E k \in 0..MaxBacklog :
       /\ learnings = <<>>
       /\ meta = [EmptyMeta EXCEPT !.total_sessions = 1]
       /\ wal = Backlog(k)
       /\ buffer = [session_id |-> IF k = 0 THEN 0 ELSE 1,
                    tool_events |-> <<>>,
                    last_stop_ts |-> IF k = 0 THEN 0 ELSE MINUTES_PER_DAY + k,
                    analyzed |-> [i \in 1..k |-> i]]
       /\ profile = NoProfile
       /\ config = DefaultConfig
       /\ now = MINUTES_PER_DAY + k + 1
       /\ nextId = 1
       /\ procs = [NoProcs EXCEPT !.session =
                      [id |-> 1, phase |-> "open", turns |-> 0,
                       transcript |-> LastN([i \in 1..k |-> AmbiguousPair(i)], PAIRS_READ)]]
       /\ context = NoContext
       /\ claudeMd = NoFile
       /\ hist = [NoHist EXCEPT !.appended = 1..k]

WalPairs == {AmbiguousPair(MaxBacklog + 1), AmbiguousPair(MaxBacklog + 2)}

NextWal ==
    \/ procs.session.turns < MaxTurns /\ \E p \in WalPairs : TurnStop(p, FALSE)
    \/ \E i \in 1..Len(procs.workers) : \E outcome \in ClassifierOutcomes : WorkerRun(i, outcome)
    \/ \E i \in 1..Len(procs.workers) : WorkerCrash(i)
    \/ SessionEndBegin
    \/ \E outcome \in ClassifierOutcomes : SessionEndClassify(outcome)
    \/ SessionEndFinish
    \/ SessionEndQuiet

SpecWal == InitWal /\ [][NextWal]_vars

\* C5 (as stated): a worker spawned by the turn-stop hook that classifies
\* its pair successfully removes that pair's entry from the WAL.
C5_ClassifiedPairLeavesWal ==
    hist.last = "worker-classified" => ~InWal(wal, hist.fp)

\* C6 (as stated): every ambiguous pair whose worker crashed or never ran is
\* in the WAL when the next session-end begins, and the drain submits it to
\* the classifier before the WAL is cleared.
C6_LeftoverPairsSubmitted ==
    hist.last = "session-end" =>
       \A fp \in hist.appended \ hist.classified :
          fp \in hist.at_begin /\ fp \in hist.submitted

\* C7 (as stated): a pair whose classification fails, in the worker or in
\* the session-end drain, is still in the WAL when that worker or hook has
\* finished.
C7_FailedPairStaysInWal ==
    /\ hist.last = "worker-failed" => InWal(wal, hist.fp)
    /\ (hist.last = "session-end" /\ hist.failed # 0) => InWal(wal, hist.failed)

----------------------------------------------------------------------------
(* Sessions one after another: session-start, tool uses and turns,          *)
(* session-end, then time away                                               *)

MaxSessions == 4
MaxToolEvents == 2

PrefersPnpmPair ==
    Pair(1, <<Signal(TxPrefersPnpm, START_CONFIDENCE("PREFERENCE", "high"), "PREFERENCE", "regex")>>,
         FALSE, <<>>, <<>>)

NoisePair == Pair(2, <<>>, TRUE, <<>>, <<>>)

SessionPairs == {PrefersPnpmPair, NoisePair}

Commands == {<<"npm", "install">>, <<"pnpm", "install">>}

\* Time away between two sessions.
Pause(d) ==
    /\ procs.session.phase = "closed"
    /\ now' = now + d
    /\ procs' = [procs EXCEPT !.session.phase = "idle"]
    /\ hist' = [hist EXCEPT !.ops = @ + 1, !.ticks = @ + 1, !.last = "pause"]
    /\ UNCHANGED <<learnings, meta, wal, buffer, profile, config, nextId, context, claudeMd>>

NextSessions ==
    \/ procs.session.phase = "idle" /\ procs.session.id < MaxSessions /\ SessionStart
    \/ procs.session.turns < MaxTurns
          /\ \E p \in SessionPairs : TurnStop(p, FALSE)
    \/ Len(buffer.tool_events) < MaxToolEvents /\ \E c \in Commands : ToolUse(c)
    \/ SessionEndQuiet
    \/ Pause(ShortPause)

SpecSessions == Init /\ [][NextSessions]_vars

\* C9 (as stated): every learning created or reinforced by addCandidate
\* during a session has that session's id in its session_ids once the
\* session-end analyzer has run.
C9_SessionIdRecorded ==
    hist.last = "session-end" =>
       \A id \in hist.touched :
          \A i \in 1..Len(learnings) :
             learnings[i].id = id => Includes(learnings[i].session_ids, procs.session.id)

\* C10 (as stated): once "Prefers pnpm" (PREFERENCE, 0.35) has been inserted
\* in four sessions with distinct ids, each closed by session-end, the
\* learning's classification is QUALITY_STANDARD and its confidence is above
\* 0.35.
C10_FourSessionsUpgrade ==
    (hist.last = "session-end" /\ hist.inserts >= UPGRADE_SESSIONS) =>
       \E i \in 1..Len(learnings) :
          /\ ~learnings[i].archived
          /\ extractCore(learnings[i].text) = extractCore(TxPrefersPnpm)
          /\ learnings[i].classification = "QUALITY_STANDARD"
          /\ learnings[i].confidence > START_CONFIDENCE("PREFERENCE", "high")

----------------------------------------------------------------------------
(* Two processes calling addCandidate at the same time: each reads the      *)
(* file (loadLearnings), changes what it read, and writes the file          *)
(* (saveLearnings); nothing locks the file in between.                       *)

RaceSignals ==
    {Signal(TxUsesPnpm, 0, "PREFERENCE", "regex"),
     Signal(TxUsesNpm, 0, "PREFERENCE", "llm"),
     Signal(TxUsesVitest, 0, "PREFERENCE", "llm")}

RaceStores == {<<>>, addCandidate(<<>>, Signal(TxUsesPnpm, 0, "PREFERENCE", "regex"),
                                  MINUTES_PER_DAY, 1)}

Racer(s) == [pc |-> "start", signal |-> s, data |-> <<>>]

InitRace ==
    \E L \in RaceStores : \E s1 \in RaceSignals : \E s2 \in RaceSignals :
       /\ learnings = L
       /\ meta = EmptyMeta
       /\ wal = <<>>
       /\ buffer = EmptyBuffer
       /\ profile = NoProfile
       /\ config = DefaultConfig
       /\ now = MINUTES_PER_DAY + ShortPause
       /\ nextId = Len(L) + 1
       /\ procs = [NoProcs EXCEPT !.race = <<Racer(s1), Racer(s2)>>]
       /\ context = NoContext
       /\ claudeMd = NoFile
       /\ hist = [NoHist EXCEPT !.base = L]

\* loadLearnings in process i.
RacerLoad(i) ==
    /\ procs.race[i].pc = "start"
    /\ procs' = [procs EXCEPT !.race[i].pc = "loaded", !.race[i].data = learnings]
    /\ Count("race-load")
    /\ UNCHANGED <<learnings, meta, wal, buffer, profile, config, now, nextId, context, claudeMd>>

\* The rest of addCandidate in process i, up to saveLearnings.
RacerSave(i) ==
    /\ procs.race[i].pc = "loaded"
    /\ learnings' = addCandidate(procs.race[i].data, procs.race[i].signal, now, nextId)
    /\ nextId' = nextId + 1
    /\ procs' = [procs EXCEPT !.race[i].pc = "done", !.race[i].data = <<>>]
    /\ Count("race-save")
    /\ UNCHANGED <<meta, wal, buffer, profile, config, now, context, claudeMd>>

NextRace ==
    \/ \E i \in 1..2 : RacerLoad(i)
    \/ \E i \in 1..2 : RacerSave(i)

SpecRace == InitRace /\ [][NextRace]_vars

\* Ids are random strings: stores are compared up to the ids.
WithoutIds(L) == [i \in 1..Len(L) |-> [L[i] EXCEPT !.id = 0]]

InOrder(L, first, second, t) ==
    addCandidate(addCandidate(L, first, t, 0), second, t, 0)

\* C8 (as stated): when two processes call addCandidate concurrently, the
\* store they leave equals the store of one of the two sequential orders of
\* the calls; nothing is lost.
C8_ConcurrentAddsSerialize ==
    (procs.race # <<>> /\ \A i \in 1..2 : procs.race[i].pc = "done") =>
       \/ WithoutIds(learnings) =
             WithoutIds(InOrder(hist.base, procs.race[1].signal, procs.race[2].signal, now))
       \/ WithoutIds(learnings) =
             WithoutIds(InOrder(hist.base, procs.race[2].signal, procs.race[1].signal, now))

----------------------------------------------------------------------------
(* Consolidation from the command line ("consolidate"), on a store filled by *)
(* addCandidate calls                                                        *)

\* Consolidated learnings the store may hold beyond MaxLearnings.
MaxInsights == 2

\* Outcomes of the synthesis requests: the groups whose request returned an
\* insight (none without an API key).
SynthesisOutcomes(L) ==
    IF config.api_key THEN SUBSET Range(findClusters(L)) ELSE {{}}

\* "consolidate": runConsolidation, then markConsolidationRun if it
\* consolidated anything.
ConsolidateOp(okGroups) ==
    /\ \E L2 \in {runConsolidation(learnings, okGroups, TxInsight, now, nextId)} :
          /\ Len(L2) > Len(learnings)
          /\ Len(L2) <= MaxLearnings + MaxInsights
          /\ learnings' = L2
          /\ nextId' = nextId + (Len(L2) - Len(learnings))
          /\ meta' = markConsolidationRun(meta, TRUE)
    /\ Count("consolidate")
    /\ UNCHANGED <<wal, buffer, profile, config, now, procs, context, claudeMd>>

NextConsolidate ==
    \/ Within /\ \E s \in DedupSignals : AddCandidateOp(s)
    \/ Within /\ \E okGroups \in SynthesisOutcomes(learnings) : ConsolidateOp(okGroups)
    \/ Within /\ PromoteOp

SpecConsolidate == Init /\ [][NextConsolidate]_vars

IsConsolidated(l) == l.consolidated_from_group # ""

\* C11 (as stated): every learning created by consolidation names at least
\* two learnings in consolidated_from_ids, each of them is on file, and each
\* has consolidated_into equal to the consolidated learning's id; also when
\* a learning belongs to more than one cluster.
C11_ConsolidationLinks ==
    \A i \in 1..Len(learnings) :
       IsConsolidated(learnings[i]) =>
          /\ Len(learnings[i].consolidated_from_ids) >= 2
          /\ \A k \in 1..Len(learnings[i].consolidated_from_ids) :
                \E j \in 1..Len(learnings) :
                   /\ learnings[j].id = learnings[i].consolidated_from_ids[k]
                   /\ learnings[j].consolidated_into = learnings[i].id

----------------------------------------------------------------------------
(* Decay: applyDecay called again and again on stores that addCandidate      *)
(* filled some time ago                                                      *)

DecayConfidences == {2000, 3500, One}

\* Minutes since the stored learnings were last reinforced: none, more than
\* the slow period, more than the fast period.
DecayAges == {0, LongAbsence, (DECAY_FAST_DAYS + 1) * MINUTES_PER_DAY}

DecayStores ==
    LET first(c) == addCandidate(<<>>, Signal(TxUsesPnpm, c, "PREFERENCE", "regex"),
                                 MINUTES_PER_DAY, 1)
    IN {first(c) : c \in DecayConfidences}
       \cup {addCandidate(first(c), Signal(TxUsesVitest, d, "PREFERENCE", "regex"),
                          MINUTES_PER_DAY, 2) : c \in DecayConfidences, d \in DecayConfidences}

InitDecay ==
    /\ \E L \in DecayStores : learnings = L /\ nextId = Len(L) + 1
    /\ \E age \in DecayAges : now = MINUTES_PER_DAY + age
    /\ meta = EmptyMeta
    /\ wal = <<>>
    /\ buffer = EmptyBuffer
    /\ profile = NoProfile
    /\ config = DefaultConfig
    /\ procs = NoProcs
    /\ context = NoContext
    /\ claudeMd = NoFile
    /\ hist = NoHist

\* A call of applyDecay.  It is not counted among the operations: it can be
\* repeated without end.
DecayOp ==
    /\ learnings' = applyDecay(learnings, now)
    /\ hist' = [hist EXCEPT !.last = "applyDecay"]
    /\ UNCHANGED <<meta, wal, buffer, profile, config, now, nextId, procs, context, claudeMd>>

NextDecay ==
    \/ DecayOp
    \/ hist.ticks < MaxTicks /\ Tick(LongAbsence)

\* applyDecay is called at every session-start and session-end.
SpecDecay == InitDecay /\ [][NextDecay]_vars /\ WF_vars(DecayOp)

SameDecayState(a, b) ==
    /\ a.decay_weight = b.decay_weight
    /\ a.confidence = b.confidence
    /\ a.archived = b.archived

\* C12 (as stated): applyDecay called a second time at the same instant,
\* with no other operation in between, leaves every learning's
\* decay_weight, confidence and archived flag as the first call left them.
C12_DecayIdempotent ==
    [][(hist.last = "applyDecay" /\ DecayOp) =>
          \A i \in 1..Len(learnings) : SameDecayState(learnings'[i], learnings[i])]_vars

\* C20: applyDecay on a learning that is neither archived nor promoted and
\* was last reinforced more than 30 days ago multiplies decay_weight by 0.90
\* and then confidence by the new decay_weight (0.20 at weight 1 becomes 0.18
\* at weight 0.90); between 14 and 30 days the factor is 0.95; a learning
\* whose confidence is then below 0.15 is archived with the reason "Decayed
\* below threshold"; and a learning that is not reinforced any more is
\* archived in the end by repeated applyDecay.
C20_DecayArithmetic ==
    /\ [][DecayOp =>
            \A i \in 1..Len(learnings) :
               LET l == learnings[i]
                   m == learnings'[i]
                   since == now - l.last_reinforced
                   fast == since > 30 * MINUTES_PER_DAY
                   slow == since > 14 * MINUTES_PER_DAY /\ ~fast
               IN (~l.archived /\ ~l.promoted) =>
                     /\ fast => /\ m.decay_weight = (l.decay_weight * 9000) \div One
                                /\ m.confidence = (l.confidence * m.decay_weight) \div One
                     /\ (fast /\ l.confidence = 2000 /\ l.decay_weight = One) =>
                            m.decay_weight = 9000 /\ m.confidence = 1800
                     /\ slow => /\ m.decay_weight = (l.decay_weight * 9500) \div One
                                /\ m.confidence = (l.confidence * m.decay_weight) \div One
                     /\ (m.confidence < 1500) =>
                            m.archived /\ m.archived_reason = "Decayed below threshold"
                     /\ (m.confidence >= 1500) => ~m.archived]_vars
    /\ \A i \in 1..MaxLearnings :
          (/\ i <= Len(learnings)
           /\ ~learnings[i].promoted
           /\ now - learnings[i].last_reinforced > 14 * MINUTES_PER_DAY)
             ~> (i <= Len(learnings) /\ learnings[i].archived)

\* applyDecay has just archived a learning that repeated decay brought below
\* the archive threshold.
C20_DecayedToArchive ==
    /\ hist.last = "applyDecay"
    /\ now - MINUTES_PER_DAY > 30 * MINUTES_PER_DAY
    /\ \E i \in 1..Len(learnings) :
          /\ learnings[i].archived
          /\ learnings[i].archived_reason = "Decayed below threshold"
          /\ learnings[i].decay_weight = 8100
          /\ learnings[i].confidence = 1458

----------------------------------------------------------------------------
(* Observations: addObservation and applyPassiveAccumulation calls *)

\* The confidences an observation may carry: the default (none given), the
\* detectors' 0.20, and one above the cap of inferred learnings.
ObservedConfidences == {0, 2000, 9000}

ObserveInputs ==
    {Observation(text, c) : text \in {TxUsesPnpm, TxUsesVitest}, c \in ObservedConfidences}

\* The session-end hook's applyPassiveAccumulation() call.
PassiveOp ==
    /\ SaveLearnings(applyPassiveAccumulation(learnings, now))
    /\ Count("applyPassiveAccumulation")
    /\ UNCHANGED <<meta, wal, buffer, profile, config, now, procs, context, claudeMd>>

NextObserve ==
    \/ Within /\ \E o \in ObserveInputs : AddObservationOp(o)
    \/ Within /\ PassiveOp
    \/ Within /\ hist.ticks < MaxTicks /\ Tick(ShortPause)

SpecObserve == Init /\ [][NextObserve]_vars

\* C13: every learning whose inferred flag is set has a confidence of at most
\* 0.44 in every state reached by addObservation and
\* applyPassiveAccumulation calls, whatever confidence the observations carry.
C13_InferredBelowCap ==
    \A i \in 1..Len(learnings) :
        learnings[i].inferred => learnings[i].confidence <= INFERRED_CAP

----------------------------------------------------------------------------
(* The store API, one call at a time, from an empty store *)

ApiSignals ==
    {Signal(TxUsesPnpm, 3500, "PREFERENCE", "regex"),
     [Signal(TxUsesPnpm, 3500, "PREFERENCE", "regex") EXCEPT !.area = "tooling"],
     Signal(TxUsesVitest, 3500, "PREFERENCE", "regex")}

ApiObservations == {Observation(TxUsesPnpm, 2000), Observation(TxUsesPnpm, 9000)}

NextApi ==
    \/ Within /\ \E s \in ApiSignals : AddCandidateOp(s)
    \/ Within /\ \E o \in ApiObservations : AddObservationOp(o)
    \/ Within /\ \E id \in InferredIds : AcceptOp(id)
    \/ Within /\ PassiveOp
    \/ Within /\ DecayOp
    \/ Within /\ PromoteOp
    \/ Within /\ hist.ticks < MaxTicks /\ Tick(LongAbsence)

SpecApi == Init /\ [][NextApi]_vars

\* C14: in every reachable store, after any sequence of addCandidate,
\* addObservation, acceptObservation, applyPassiveAccumulation and applyDecay
\* calls with signals whose confidence lies in [0,1], every learning has a
\* confidence between 0 and 1.
C14_ConfidenceInUnitInterval ==
    \A i \in 1..Len(learnings) :
        /\ 0 <= learnings[i].confidence
        /\ learnings[i].confidence <= One

----------------------------------------------------------------------------
(* Promotion: addCandidate calls on a store of inferred observations *)

\* Observations a session's replies produced, at the detectors' confidences:
\* none of their cores is similar to another's, so each is stored on its own.
PromoteObservations ==
    <<Observation(<<"Avoids", "pure", "tested", "functions">>, 2000),
      Observation(<<"Avoids", "small", "tested", "functions">>, 2000),
      Observation(<<"Avoids", "small", "pure", "functions">>, 2000),
      Observation(<<"Uses", "small", "pure", "tested">>, 2500)>>

RECURSIVE PassiveTimes(_, _, _)
PassiveTimes(L, k, t) ==
    IF k = 0 THEN L ELSE PassiveTimes(applyPassiveAccumulation(L, t), k - 1, t)

RECURSIVE ObserveAll(_, _, _)
ObserveAll(L, observations, t) ==
    IF observations = <<>> THEN L
    ELSE ObserveAll(addObservation(L, Head(observations), t, Len(L) + 1),
                    Tail(observations), t)

\* The store after these observations and up to four later sessions, each of
\* which ended with one applyPassiveAccumulation.
PromoteStores ==
    {PassiveTimes(ObserveAll(<<>>, PromoteObservations, MINUTES_PER_DAY), k, MINUTES_PER_DAY) :
        k \in 0..4}

PromoteSignals ==
    {Signal(<<"Uses", "small", "pure", "tested", "functions">>, 3500, "PREFERENCE", "regex"),
     Signal(<<"Uses", "small", "pure", "tested">>, 3500, "PREFERENCE", "regex")}

InitPromote ==
    /\ \E L \in PromoteStores : learnings = L /\ nextId = Len(L) + 1
    /\ meta = EmptyMeta
    /\ wal = <<>>
    /\ buffer = EmptyBuffer
    /\ profile = NoProfile
    /\ config = DefaultConfig
    /\ now = MINUTES_PER_DAY
    /\ procs = NoProcs
    /\ context = NoContext
    /\ claudeMd = NoFile
    /\ hist = NoHist

NextPromote ==
    \/ Within /\ \E s \in PromoteSignals : AddCandidateOp(s)
    \/ Within /\ \E id \in InferredIds : AcceptOp(id)
    \/ Within /\ PassiveOp
    \/ Within /\ PromoteOp

SpecPromote == InitPromote /\ [][NextPromote]_vars

\* C15: every learning getPromotable returns has a confidence of at least
\* 0.80 and an evidence_count of at least 4, and is not archived, not
\* promoted and not inferred.
C15_PromotableAreValidated ==
    LET promotable == getPromotable(learnings)
    IN \A i \in 1..Len(promotable) :
          /\ promotable[i].confidence >= PROMOTION_THRESHOLD
          /\ promotable[i].evidence_count >= PROMOTION_MIN_EVIDENCE
          /\ ~promotable[i].archived
          /\ ~promotable[i].promoted
          /\ ~promotable[i].inferred

----------------------------------------------------------------------------
(* Contradictions: addCandidate calls with texts that supersede one another *)

TxUsesJest == <<"Uses", "jest">>
TxUsesMocha == <<"Uses", "mocha">>

\* One text pair for each rule of findContradictions: the same tool category,
\* avoids against uses, "X instead of Y", and a pair of style opposites.
ContraSignals ==
    {Signal(text, 3500, "PREFERENCE", "regex") :
        text \in {TxUsesJest, TxUsesVitest,
                  <<"Uses", "tabs">>, <<"Avoids", "tabs">>,
                  <<"Uses", "spaces", "instead", "of", "tabs">>,
                  <<"Prefers", "concise", "answers">>,
                  <<"Prefers", "detailed", "answers">>}}

ContraObservations == {Observation(TxUsesMocha, 2000)}

\* The calls of one run.
MaxCalls == 4

NextContra ==
    \/ hist.ops < MaxCalls /\ \E s \in ContraSignals : AddCandidateOp(s)
    \/ hist.ops < MaxCalls /\ \E o \in ContraObservations : AddObservationOp(o)

SpecContra == Init /\ [][NextContra]_vars

NonArchived(L) == SelectSeq(L, LAMBDA l : ~l.archived)

\* C16: when addCandidate inserts a text that is not a duplicate of any
\* non-archived learning, every non-archived learning that contradicts it is
\* archived in that call with a reason beginning "Superseded by", and the new
\* learning is stored non-archived; inserting "Uses vitest" into a store
\* holding only "Uses jest" leaves exactly one non-archived learning,
\* "Uses vitest".
C16_ContradictedAreSuperseded ==
    [][\A s \in ContraSignals :
         (AddCandidateOp(s) /\ \A i \in 1..Len(learnings) : ~IsDuplicateOf(learnings[i], s)) =>
            /\ Len(learnings') = Len(learnings) + 1
            /\ learnings'[Len(learnings')].text = s.text
            /\ ~learnings'[Len(learnings')].archived
            /\ \A i \in 1..Len(learnings) :
                  (~learnings[i].archived /\ Contradicts(learnings[i].text, s.text)) =>
                     /\ learnings'[i].archived
                     /\ learnings'[i].archived_reason = "Superseded by"
            /\ (/\ s.text = TxUsesVitest
                /\ Len(learnings) = 1
                /\ learnings[1].text = TxUsesJest
                /\ ~learnings[1].archived) =>
                  /\ Len(NonArchived(learnings')) = 1
                  /\ NonArchived(learnings')[1].text = TxUsesVitest]_vars

\* "Uses vitest" has just been inserted into a store that held "Uses jest"
\* and the observation "Uses mocha": both are archived as superseded.
C16_JestAndMochaSuperseded ==
    /\ hist.last = "addCandidate"
    /\ Len(learnings) = 3
    /\ learnings[3].text = TxUsesVitest /\ ~learnings[3].archived
    /\ \E i, j \in 1..2 :
          /\ learnings[i].text = TxUsesJest /\ learnings[j].text = TxUsesMocha
          /\ learnings[i].archived /\ learnings[i].archived_reason = "Superseded by"
          /\ learnings[j].archived /\ learnings[j].archived_reason = "Superseded by"

----------------------------------------------------------------------------
(* Reinforcement: addCandidate calls that match a stored learning *)

NextReinforce ==
    \/ hist.ops < MaxCalls /\ \E s \in ApiSignals : AddCandidateOp(s)
    \/ hist.ops < MaxCalls /\ \E o \in ApiObservations : AddObservationOp(o)
    \/ hist.ops < MaxCalls /\ hist.ticks < MaxTicks /\ Tick(ShortPause)

SpecReinforce == Init /\ [][NextReinforce]_vars

\* C17: if addObservation("Uses pnpm") has created an inferred learning and
\* addCandidate("Uses pnpm", 0.35) is then called, that same row has its
\* inferred flag cleared, detection_method claude_observation_validated and a
\* confidence of at least 0.45, the number of learnings is unchanged, and the
\* row is in the active set.
C17_AlignmentValidatesObservation ==
    [][\A s \in ApiSignals : \A i \in 1..Len(learnings) :
         (/\ AddCandidateOp(s)
          /\ s.text = TxUsesPnpm
          /\ learnings[i].text = TxUsesPnpm
          /\ learnings[i].inferred /\ ~learnings[i].archived) =>
            /\ Len(learnings') = Len(learnings)
            /\ learnings'[i].id = learnings[i].id
            /\ ~learnings'[i].inferred
            /\ learnings'[i].detection_method = "claude_observation_validated"
            /\ learnings'[i].confidence >= ACTIVATION_THRESHOLD
            /\ learnings'[i].id \in Ids(getActiveLearnings(learnings', EffectiveThreshold(config)))]_vars

\* addCandidate("Uses pnpm") has just validated the observation "Uses pnpm"
\* made at 0.20: the store holds that one row, no longer inferred.
C17_ObservationValidated ==
    /\ hist.last = "addCandidate"
    /\ hist.ops = 2
    /\ Len(learnings) = 1
    /\ learnings[1].text = TxUsesPnpm
    /\ ~learnings[1].inferred
    /\ learnings[1].detection_method = "claude_observation_validated"
    /\ learnings[1].confidence = 2000 + ALIGN_DELTA + REINFORCE_DELTA

\* No learning of the store matches the signal: none has its text or a core
\* similar to its core.
NoMatch(L, s) ==
    \A i \in 1..Len(L) :
        /\ toLowerCase(L[i].text) # toLowerCase(s.text)
        /\ extractCore(L[i].text) # extractCore(s.text)
        /\ ~similar(extractCore(L[i].text), extractCore(s.text))

WithText(L, text) == {i \in 1..Len(L) : L[i].text = text}

\* C18: starting from a store with no matching learning, calling addCandidate
\* twice with the identical text yields exactly one learning with that text,
\* and its evidence_count is 2.  (The step is the first call; the second call
\* is applied to the store the first one saved.)
C18_TwiceIsOneLearning ==
    [][\A s \in ApiSignals :
         (AddCandidateOp(s) /\ NoMatch(learnings, s)) =>
            LET twice == addCandidate(learnings', s, now', nextId')
            IN /\ Cardinality(WithText(learnings', s.text)) = 1
               /\ Len(twice) = Len(learnings')
               /\ Cardinality(WithText(twice, s.text)) = 1
               /\ \A i \in WithText(twice, s.text) : twice[i].evidence_count = 2]_vars

\* addCandidate("Uses vitest") has been called twice on a store that held
\* nothing like it: one row holds the text, created by the first call and
\* reinforced by the second.
C18_SecondCallReinforced ==
    /\ hist.last = "addCandidate"
    /\ Cardinality(WithText(learnings, TxUsesVitest)) = 1
    /\ \A i \in WithText(learnings, TxUsesVitest) :
          /\ learnings[i].evidence_count = 2
          /\ learnings[i].evidence = <<[detected_at |-> now, detection_method |-> "regex"],
                                       [detected_at |-> now, detection_method |-> "regex"]>>

\* The learning addCandidate reinforces for the signal s: the first
\* non-archived duplicate on file, 0 when there is none.
MatchIndex(L, s) == FirstIndex(L, LAMBDA l : IsDuplicateOf(l, s))

\* The call validates row i before it looks for the duplicate: i is the
\* first non-archived inferred learning whose core is similar to the signal's.
ValidatedFirst(L, s, i) ==
    LET Aligned(l) == ~l.archived /\ l.inferred /\ similar(extractCore(l.text), extractCore(s.text))
    IN Aligned(L[i]) /\ \A j \in 1..(i - 1) : ~Aligned(L[j])

\* The row e2 is the row e reinforced by s at time t, from the confidence c.
ReinforcedFrom(e, e2, c, s, t) ==
    /\ e2.confidence = Min(One, c + REINFORCE_DELTA)
    /\ e2.evidence_count = e.evidence_count + 1
    /\ e2.decay_weight = One
    /\ e2.last_reinforced = t
    /\ Includes(e2.areas, s.area)
    /\ \A k \in 1..Len(e.areas) : Includes(e2.areas, e.areas[k])

----------------------------------------------------------------------------
(* Hook invocations on bad input                                            *)

Hooks == {"session-start", "turn-stop", "tool-use", "session-end"}

\* The inputs on which the try block of a hook throws: the event on stdin
\* is not JSON (JSON.parse(input) throws), or config.json is not JSON
\* (loadConfig parses it outside any try).  Both come before the hook has
\* written anything.
ThrowingInputs == {"malformed_event", "corrupt_config"}

ErrorLogged == [h \in Hooks |->
    CASE h = "session-start" -> "session-start-error"
      [] h = "turn-stop" -> "turn-stop-error"
      [] h = "tool-use" -> "tool-use-error"
      [] OTHER -> "session-end-error"]

\* A hook whose try block throws: the catch block logs (log swallows the
\* failure of its own write) and exits 0; the one of session-end clears the
\* WAL and the buffer before.  The host has opened or closed the session
\* whatever the hook did.
HookCaught(h, input) ==
    /\ procs.se.pc = "idle"
    /\ IF h = "session-start" THEN procs.session.phase # "open"
       ELSE procs.session.phase = "open"
    /\ procs' = CASE h = "session-start" ->
                       [procs EXCEPT !.session = [id |-> @.id + 1, phase |-> "open",
                                                  turns |-> 0, transcript |-> <<>>]]
                  [] h = "session-end" -> [procs EXCEPT !.session.phase = "closed"]
                  [] OTHER -> procs
    /\ hist' = [hist EXCEPT !.ops = @ + 1, !.last = ErrorLogged[h],
                            !.exit = ExitCode(TRUE, FALSE),
                            !.recorded = IF h = "session-end" THEN 0 ELSE @,
                            !.examined = IF h = "session-end" THEN {} ELSE @]
    /\ IF h = "session-end"
       THEN wal' = clearWal(wal) /\ buffer' = EmptyBuffer
       ELSE UNCHANGED <<wal, buffer>>
    /\ UNCHANGED <<learnings, meta, profile, config, now, nextId, context, claudeMd>>

\* turn-stop when the transcript file is missing: parseTranscript logs and
\* returns no message, getLastPairs no pair, and the hook exits 0 before it
\* loads the buffer.
TurnStopNoTranscript ==
    /\ procs.session.phase = "open"
    /\ procs.se.pc = "idle"
    /\ hist' = [hist EXCEPT !.ops = @ + 1, !.last = "turn-stop-no-transcript",
                            !.exit = ExitCode(FALSE, FALSE)]
    /\ UNCHANGED <<learnings, meta, wal, buffer, profile, config, now, nextId, procs, context, claudeMd>>

\* learnings.json is overwritten with text that does not parse.  Every
\* reader goes through loadLearnings, which returns the empty store for such
\* a file: from here on the file reads as that.
LearningsCorrupted ==
    /\ learnings # <<>>
    /\ learnings' = <<>>
    /\ meta' = EmptyMeta
    /\ hist' = [hist EXCEPT !.ops = @ + 1, !.last = "learnings-corrupted"]
    /\ UNCHANGED <<wal, buffer, profile, config, now, nextId, procs, context, claudeMd>>

FaultPairs == {PrefersPnpmPair, AmbiguousPair(3)}

NextFaults ==
    \/ Within /\ SessionStart
    \/ Within /\ procs.session.turns < MaxTurns /\ \E p \in FaultPairs : TurnStop(p, FALSE)
    \/ Within /\ Len(buffer.tool_events) < MaxToolEvents /\ \E c \in Commands : ToolUse(c)
    \/ Within /\ SessionEndQuiet
    \/ Within /\ SessionEndBegin
    \/ Within /\ \E outcome \in ClassifierOutcomes : SessionEndClassify(outcome)
    \/ Within /\ SessionEndFinish
    \/ Within /\ \E h \in Hooks : \E input \in ThrowingInputs : HookCaught(h, input)
    \/ Within /\ TurnStopNoTranscript
    \/ Within /\ LearningsCorrupted

SpecFaults == Init /\ [][NextFaults]_vars

----------------------------------------------------------------------------
(* The WAL functions called one by one                                      *)

AppendWalOp(fp) ==
    /\ wal' = appendWal(wal, Payload(AmbiguousPair(fp)), now)
    /\ hist' = [hist EXCEPT !.ops = @ + 1, !.last = "appendWal", !.fp = fp,
                            !.log = Append(@, [fp |-> fp, written_at |-> now])]
    /\ UNCHANGED <<learnings, meta, buffer, profile, config, now, nextId, procs, context, claudeMd>>

DrainWalOp ==
    /\ hist' = [hist EXCEPT !.ops = @ + 1, !.last = "drainWal", !.drained = drainWal(wal)]
    /\ UNCHANGED <<learnings, meta, wal, buffer, profile, config, now, nextId, procs, context, claudeMd>>

ClearWalOp ==
    /\ wal' = clearWal(wal)
    /\ hist' = [hist EXCEPT !.ops = @ + 1, !.last = "clearWal", !.log = <<>>]
    /\ UNCHANGED <<learnings, meta, buffer, profile, config, now, nextId, procs, context, claudeMd>>

\* The last step of the worker for the pair fp: it calls removeFromWal when
\* the payload it was given has a written_at, and the payload turn-stop
\* encodes for it has none.
WorkerRemoveOp(fp) ==
    /\ InWal(wal, fp)
    /\ \E pair \in {Payload(AmbiguousPair(fp))} :
          wal' = IF pair.written_at # 0 THEN removeFromWal(wal, pair) ELSE wal
    /\ hist' = [hist EXCEPT !.ops = @ + 1, !.last = "worker-remove", !.fp = fp]
    /\ UNCHANGED <<learnings, meta, buffer, profile, config, now, nextId, procs, context, claudeMd>>

WalFingerprints == {1, 2}

NextWalApi ==
    \/ Within /\ \E fp \in WalFingerprints : AppendWalOp(fp)
    \/ Within /\ DrainWalOp
    \/ Within /\ ClearWalOp
    \/ Within /\ \E fp \in WalFingerprints : WorkerRemoveOp(fp)
    \/ Within /\ hist.ticks < MaxTicks /\ Tick(ShortPause)

SpecWalApi == Init /\ [][NextWalApi]_vars

\* C22 (as stated): drainWal returns exactly the entries appended by
\* appendWal since the last clearWal, in the order they were appended, and
\* does not change the WAL: two drains in a row return the same entries, and
\* a drain right after clearWal returns the empty list.
C22_DrainReturnsAppended ==
    [][hist'.last = "drainWal" =>
          /\ hist'.drained = hist.log
          /\ wal' = wal
          /\ hist.last = "drainWal" => hist'.drained = hist.drained
          /\ hist.last = "clearWal" => hist'.drained = <<>>]_vars

\* A drain returned two entries appended at different times, the earlier one
\* first.
C22_DrainedInOrder ==
    /\ hist.last = "drainWal"
    /\ Len(hist.drained) = 2
    /\ hist.drained[1].fp # hist.drained[2].fp
    /\ hist.drained[1].written_at < hist.drained[2].written_at

----------------------------------------------------------------------------
(* A long session: the buffer and a learning's evidence at their caps       *)

\* "Prefers pnpm" after it was said k times.
SaidOften(k) ==
    [NewCandidate(Signal(TxPrefersPnpm, START_CONFIDENCE("PREFERENCE", "high"),
                         "PREFERENCE", "regex"), MINUTES_PER_DAY, 1)
       EXCEPT !.evidence = [i \in 1..k |-> [detected_at |-> MINUTES_PER_DAY,
                                            detection_method |-> "regex"]],
              !.evidence_count = k,
              !.confidence = One]

\* The session has had n tool uses, one a minute, and a turn-stop after the
\* last; a pairs were analysed.
LongBuffer(n, a) ==
    [session_id |-> 1,
     tool_events |-> [i \in 1..n |-> [tool |-> "Bash", command |-> <<"pnpm", "install">>,
                                      ts |-> i]],
     last_stop_ts |-> n,
     analyzed |-> [i \in 1..a |-> i]]

InitCaps ==
    \E n \in {MAX_TOOL_EVENTS - 1, MAX_TOOL_EVENTS} :
    \E a \in {MAX_ANALYZED - 1, MAX_ANALYZED} :
    \E k \in {MAX_EVIDENCE - 1, MAX_EVIDENCE} :
       /\ learnings = <<SaidOften(k)>>
       /\ meta = [EmptyMeta EXCEPT !.total_sessions = 1]
       /\ wal = <<>>
       /\ buffer = LongBuffer(n, a)
       /\ profile = NoProfile
       /\ config = DefaultConfig
       /\ now = MINUTES_PER_DAY
       /\ nextId = 2
       /\ procs = [NoProcs EXCEPT !.session = [id |-> 1, phase |-> "open", turns |-> 0,
                                               transcript |-> <<>>]]
       /\ context = NoContext
       /\ claudeMd = NoFile
       /\ hist = [NoHist EXCEPT !.recorded = n, !.examined = 1..n]

\* Pairs not analysed so far, in which the developer says it again.
SaysItAgain(fp) ==
    Pair(fp, <<Signal(TxPrefersPnpm, START_CONFIDENCE("PREFERENCE", "high"),
                      "PREFERENCE", "regex")>>, FALSE, <<>>, <<>>)

CapPairs == {SaysItAgain(MAX_ANALYZED + 1), SaysItAgain(MAX_ANALYZED + 2)}

NextCaps ==
    \/ Within /\ \E p \in CapPairs : TurnStop(p, FALSE)
    \/ Within /\ \E c \in Commands : ToolUse(c)
    \/ Within /\ hist.ticks < MaxTicks /\ Tick(ShortPause)
    \/ Within /\ SessionEndQuiet
    \/ Within /\ SessionStart

SpecCaps == InitCaps /\ [][NextCaps]_vars

\* C23 (as stated): after every hook invocation the buffer holds at most 100
\* tool events, the most recent ones, and at most 200 fingerprints of
\* analysed pairs, and every learning holds at most 10 evidence records.
C23_BufferAndEvidenceCapped ==
    /\ Len(buffer.tool_events) <= MAX_TOOL_EVENTS
    /\ hist.last = "tool-use" => /\ buffer.tool_events # <<>>
                                 /\ buffer.tool_events[Len(buffer.tool_events)].ts = now
    /\ \A i \in 1..(Len(buffer.tool_events) - 1) :
          buffer.tool_events[i].ts <= buffer.tool_events[i + 1].ts
    /\ Len(buffer.analyzed) <= MAX_ANALYZED
    /\ \A i \in 1..Len(learnings) : Len(learnings[i].evidence) <= MAX_EVIDENCE

\* The three caps have each cut an entry: the oldest tool event and the
\* oldest fingerprint are gone, and the learning was reinforced more often
\* than it holds evidence.
C23_AllThreeCut ==
    /\ Len(buffer.tool_events) = MAX_TOOL_EVENTS
    /\ buffer.tool_events[1].ts > 1
    /\ Len(buffer.analyzed) = MAX_ANALYZED
    /\ buffer.analyzed[1] > 1
    /\ Len(learnings) = 1
    /\ Len(learnings[1].evidence) = MAX_EVIDENCE
    /\ learnings[1].evidence_count > MAX_EVIDENCE

----------------------------------------------------------------------------
(* The store under a small max_learnings                                    *)

\* config.json with max_learnings set below what the run can store.
InitLimit == InitStore /\ config = [DefaultConfig EXCEPT !.max_learnings = MaxLearnings - 1]

LimitSignals ==
    {Signal(TxUsesPnpm, 3500, "PREFERENCE", "regex"),
     Signal(TxUsesVitest, 3500, "PREFERENCE", "regex"),
     Signal(TxSmall, 3500, "PREFERENCE", "regex")}

LimitObservations == {Observation(TxInsight, 2000)}

NextLimit ==
    \/ hist.ops < MaxCalls /\ \E s \in LimitSignals : AddCandidateOp(s)
    \/ hist.ops < MaxCalls /\ \E o \in LimitObservations : AddObservationOp(o)
    \/ hist.ops < MaxCalls /\ hist.ticks < MaxTicks /\ Tick(ShortPause)

SpecLimit == InitLimit /\ [][NextLimit]_vars

\* C24 (as stated): the number of learnings in the store never exceeds
\* config.max_learnings, whatever sequence of addCandidate and
\* addObservation calls ran.
C24_AtMostMaxLearnings == Len(learnings) <= config.max_learnings

----------------------------------------------------------------------------
(* The pairs of the WAL and the addCandidate calls made for them (SpecWal)  *)

\* C25 (as stated): each ambiguous pair appended to the WAL leads to at most
\* one addCandidate call: a pair the worker classified and stored is not
\* classified and stored again by the WAL drain of the session-end hook.
C25_OneAddCandidatePerPair == hist.again = 0

----------------------------------------------------------------------------
(* Reinforcement by a deeper or a longer signal                             *)

\* The same thing said in five words and in six, as a preference and as what
\* the classifier calls a deeper pattern.
UpgradeSignals ==
    {Signal(TxSmall, 3500, "PREFERENCE", "regex"),
     Signal(TxSmallEverywhere, 3000, "PREFERENCE", "regex"),
     Signal(TxSmall, 3800, "QUALITY_STANDARD", "llm"),
     Signal(TxSmallEverywhere, 3800, "THINKING_PATTERN", "llm")}

NextUpgrade ==
    \/ hist.ops < MaxCalls /\ \E s \in UpgradeSignals : AddCandidateOp(s)
    \/ hist.ops < MaxCalls /\ hist.ticks < MaxTicks /\ Tick(ShortPause)

SpecUpgrade == Init /\ [][NextUpgrade]_vars

\* C26 (as stated): when addCandidate reinforces a learning, its
\* classification becomes the incoming one if that is deeper, and its text
\* becomes the incoming text whenever that is longer than its own.
C26_LongerTextReplaces ==
    [][\A s \in UpgradeSignals :
         (AddCandidateOp(s) /\ MatchIndex(learnings, s) # 0) =>
            LET i == MatchIndex(learnings, s)
            IN /\ isDeeper(s.classification, learnings[i].classification)
                     => learnings'[i].classification = s.classification
               /\ TextLength(s.text) > TextLength(learnings[i].text)
                     => learnings'[i].text = s.text]_vars

\* C26 (amended): the classification becomes the incoming one if that is
\* deeper and stays otherwise; the text becomes the incoming text if the
\* incoming classification is deeper and the incoming text longer, and stays
\* otherwise.
C26_DeeperAndLongerTextReplaces ==
    [][\A s \in UpgradeSignals :
         (AddCandidateOp(s) /\ MatchIndex(learnings, s) # 0) =>
            LET i == MatchIndex(learnings, s)
                deeper == isDeeper(s.classification, learnings[i].classification)
                longer == TextLength(s.text) > TextLength(learnings[i].text)
            IN /\ learnings'[i].classification =
                     IF deeper THEN s.classification ELSE learnings[i].classification
               /\ learnings'[i].text =
                     IF deeper /\ longer THEN s.text ELSE learnings[i].text]_vars

\* The five-word preference was reinforced by the six-word thinking pattern:
\* one learning, with the deeper classification and the longer text.
C26_UpgradedWithLongerText ==
    /\ hist.last = "addCandidate"
    /\ Len(learnings) = 1
    /\ learnings[1].evidence_count = 2
    /\ learnings[1].confidence = 3500 + REINFORCE_DELTA
    /\ learnings[1].classification = "THINKING_PATTERN"
    /\ learnings[1].text = TxSmallEverywhere

----------------------------------------------------------------------------
(* Consolidation again, after the first insight of a group left the pool    *)

SmallFunctions == Signal(<<"Values", "small", "functions">>, 8000, "PREFERENCE", "regex")

SeparateComponents ==
    Signal(<<"Values", "separate", "components">>, 8000, "PREFERENCE", "regex")

\* Two learnings of the group composability, each said k times.
SaidTimes(k) ==
    IF k = 1
    THEN addCandidate(addCandidate(<<>>, SmallFunctions, MINUTES_PER_DAY, 1),
                      SeparateComponents, MINUTES_PER_DAY, 2)
    ELSE addCandidate(addCandidate(addCandidate(addCandidate(<<>>,
                         SmallFunctions, MINUTES_PER_DAY, 1),
                         SmallFunctions, MINUTES_PER_DAY, 2),
                         SeparateComponents, MINUTES_PER_DAY, 2),
                      SeparateComponents, MINUTES_PER_DAY, 3)

InitReconsolidate ==
    /\ \E k \in {1, 2} : learnings = SaidTimes(k)
    /\ nextId = 3
    /\ meta = EmptyMeta
    /\ wal = <<>>
    /\ buffer = EmptyBuffer
    /\ profile = NoProfile
    /\ config = DefaultConfig
    /\ now = MINUTES_PER_DAY
    /\ procs = NoProcs
    /\ context = NoContext
    /\ claudeMd = NoFile
    /\ hist = NoHist

NextReconsolidate ==
    \/ Within /\ \E s \in {SmallFunctions, SeparateComponents} : AddCandidateOp(s)
    \/ Within /\ \E okGroups \in SynthesisOutcomes(learnings) : ConsolidateOp(okGroups)
    \/ Within /\ PromoteOp
    \/ Within /\ hist.ticks < MaxTicks /\ Tick(LongAbsence)

SpecReconsolidate == InitReconsolidate /\ [][NextReconsolidate]_vars

InsightsOf(g) ==
    {i \in 1..Len(learnings) :
        ~learnings[i].archived /\ learnings[i].consolidated_from_group = g}

\* C27 (as stated): findClusters emits no cluster for a group once a
\* learning with that consolidated_from_group exists, so the store holds at
\* most one consolidated learning for each affinity group, whatever
\* consolidation runs and promotions came before.
C27_OneInsightPerGroup ==
    \A k \in 1..Len(AFFINITY_GROUPS) :
       /\ Cardinality(InsightsOf(AFFINITY_GROUPS[k])) <= 1
       /\ InsightsOf(AFFINITY_GROUPS[k]) # {}
             => ~Includes(findClusters(learnings), AFFINITY_GROUPS[k])

----------------------------------------------------------------------------
(* What turn-stop does with a detected, an ambiguous and a noise pair       *)

\* "now use pnpm": a correction pattern matches, after an opener that isNoise
\* takes for a continuation.
NoisyMatchPair ==
    Pair(4, <<Signal(TxUsesPnpm, START_CONFIDENCE("PREFERENCE", "high"), "PREFERENCE", "regex")>>,
         TRUE, <<>>, <<>>)

DetectPairs == {PrefersPnpmPair, NoisePair, AmbiguousPair(3), NoisyMatchPair}

NextDetect ==
    \/ Within /\ SessionStart
    \/ Within /\ \E p \in DetectPairs : TurnStop(p, FALSE)
    \/ Within /\ SessionEndQuiet

SpecDetect == Init /\ [][NextDetect]_vars

\* The pairs a turn-stop step analyses: the last two of the transcript it
\* read, without those whose fingerprint the buffer held and without a
\* repetition of the one before.
AnalysedNow ==
    LET read == LastN(procs'.session.transcript, PAIRS_ANALYZED)
    IN SelectSeq([k \in 1..Len(read) |->
                    [pair |-> read[k],
                     skip |-> \/ Includes(buffer.analyzed, hashPair(read[k]))
                              \/ \E j \in 1..(k - 1) : hashPair(read[j]) = hashPair(read[k])]],
                 LAMBDA x : ~x.skip)

Appended(old, new) == SubSeq(new, Len(old) + 1, Len(new))

\* C28 (as stated): for every pair turn-stop analyses: if the detector
\* reports detected, each signal is stored with addCandidate and nothing is
\* appended to the WAL; if it reports neither detected nor noise, exactly one
\* WAL entry is appended, before the worker is spawned; if it reports noise,
\* the detector makes no addCandidate call and no WAL entry is written.  The
\* detector never reports detected and noise together.
C28_DetectedAmbiguousNoise ==
    [][(hist'.last = "turn-stop" /\ ~config.paused) =>
         LET A == AnalysedNow
             result(k) == detectSignals(A[k].pair)
             ambiguous == SelectSeq(A, LAMBDA x : ~detectSignals(x.pair).detected
                                                  /\ ~detectSignals(x.pair).noise)
         IN /\ \A k \in 1..Len(A) : ~(result(k).detected /\ result(k).noise)
            /\ Len(wal') = Len(wal) + Len(ambiguous)
            /\ SubSeq(wal', 1, Len(wal)) = wal
            /\ \A k \in 1..Len(ambiguous) :
                  /\ Appended(wal, wal')[k].fp = hashPair(ambiguous[k].pair)
                  /\ Appended(procs.workers, procs'.workers)[k].fp = hashPair(ambiguous[k].pair)
            /\ Len(procs'.workers) = Len(procs.workers) + Len(ambiguous)
            /\ \A k \in 1..Len(A) :
                  result(k).detected =>
                     \A j \in 1..Len(result(k).signals) :
                        /\ MatchIndex(learnings', result(k).signals[j]) # 0
                        /\ learnings'[MatchIndex(learnings', result(k).signals[j])].id
                              \in hist'.touched
            /\ (\A k \in 1..Len(A) : ~result(k).detected) => learnings' = learnings]_vars

\* One turn-stop has analysed a detected pair and an ambiguous one: the
\* signal is stored, one entry is in the WAL and one worker was spawned for
\* it; a noise pair whose text matches a pattern was analysed before and left
\* nothing.
C28_DetectedAndAmbiguous ==
    /\ hist.last = "turn-stop"
    /\ Includes(buffer.analyzed, hashPair(NoisyMatchPair))
    /\ Includes(buffer.analyzed, hashPair(PrefersPnpmPair))
    /\ Includes(buffer.analyzed, hashPair(AmbiguousPair(3)))
    /\ Len(learnings) = 1
    /\ learnings[1].text = TxPrefersPnpm
    /\ learnings[1].evidence_count = 1
    /\ Fingerprints(wal) = {3}
    /\ Len(wal) = 1
    /\ Len(procs.workers) = 1

----------------------------------------------------------------------------
(* The pairs of one session and the turns that analyse them                 *)

OncePairs == {SaysItAgain(MAX_ANALYZED + 1), SaysItAgain(MAX_ANALYZED + 2),
              AmbiguousPair(MAX_ANALYZED + 3)}

NextOnce ==
    \/ Within /\ \E p \in OncePairs : \E active \in BOOLEAN : TurnStop(p, active)
    \/ Within /\ TurnStopAgain
    \/ Within /\ SessionEndQuiet
    \/ Within /\ SessionStart

SpecOnce == InitCaps /\ [][NextOnce]_vars

\* C29 (as stated): between one session-start and the next, turn-stop runs
\* the detector and the observer on a given pair of the transcript at most
\* once: a pair whose fingerprint is in buffer.analyzed is skipped, so that
\* turn-stops over the same transcript store or reinforce nothing twice
\* from one pair.
C29_PairAnalysedOnce == hist.rerun = 0

\* Three turns of one session: the first with stop_hook_active, so that its
\* pair was analysed by the second turn; the third read the second pair
\* again and skipped it, and the list of fingerprints is at its cap.
C29_ThreePairsOnceEach ==
    /\ hist.last = "turn-stop"
    /\ procs.session.turns = 3
    /\ hist.ran = {1, 2, 3}
    /\ Len(buffer.analyzed) = MAX_ANALYZED
    /\ buffer.analyzed[1] > 1
    /\ Len(learnings) = 1
    /\ learnings[1].evidence_count \in {MAX_EVIDENCE + 1, MAX_EVIDENCE + 2}

----------------------------------------------------------------------------
(* The tool events of a turn and the turn-stops that examine them           *)

\* A session in a turn of n tool uses so far, none examined yet.
InitTurns ==
    \E n \in {0, MAX_TOOL_EVENTS - 1} :
       /\ learnings = <<>>
       /\ meta = [EmptyMeta EXCEPT !.total_sessions = 1]
       /\ wal = <<>>
       /\ buffer = [LongBuffer(n, 0) EXCEPT !.last_stop_ts = 0]
       /\ profile = NoProfile
       /\ config = DefaultConfig
       /\ now = MINUTES_PER_DAY
       /\ nextId = 1
       /\ procs = [NoProcs EXCEPT !.session = [id |-> 1, phase |-> "open", turns |-> 0,
                                               transcript |-> <<>>]]
       /\ context = NoContext
       /\ claudeMd = NoFile
       /\ hist = [NoHist EXCEPT !.recorded = n]

NextTurns ==
    \/ Within /\ \E c \in Commands : ToolUse(c)
    \/ Within /\ \E active \in BOOLEAN : TurnStop(NoisePair, active)
    \/ Within /\ TurnStopAgain
    \/ Within /\ hist.ticks < MaxTicks /\ Tick(ShortPause)
    \/ Within /\ SessionEndQuiet
    \/ Within /\ SessionStart

SpecTurns == InitTurns /\ [][NextTurns]_vars

\* A turn-stop has just run through: it was the last step, or the clock has
\* not moved since.
StopRan == hist.last = "turn-stop" /\ buffer.last_stop_ts = now

\* C30 (as stated): each turn-stop gives the tool-signal detector only the
\* buffered tool events with ts > last_stop_ts and then sets last_stop_ts to
\* the current time, so that every tool event the tool-use hook recorded is
\* examined in exactly one turn.
C30_EveryEventExaminedOnce ==
    /\ hist.reexamined = 0
    /\ StopRan => hist.examined = 1..hist.recorded

\* C30 (amended): no tool event is examined in more than one turn, and the
\* events the buffer holds when a turn-stop runs through have each been
\* examined in exactly one; an event the cap of 100 pushed out of the buffer
\* before the turn-stop was examined in none.
C30_BufferedEventsExaminedOnce ==
    /\ hist.reexamined = 0
    /\ hist.examined \subseteq 1..hist.recorded
    /\ StopRan =>
          \A i \in 1..Len(buffer.tool_events) :
             (hist.recorded - Len(buffer.tool_events) + i) \in hist.examined

\* A turn of 101 tool uses: the turn-stop after it examined the last 100,
\* each once, and the first was gone from the buffer.
C30_OldestEventMissed ==
    /\ StopRan
    /\ hist.recorded = MAX_TOOL_EVENTS + 1
    /\ Len(buffer.tool_events) = MAX_TOOL_EVENTS
    /\ hist.examined = 2..hist.recorded
    /\ hist.reexamined = 0

----------------------------------------------------------------------------
(* Observations against learnings of the opposite prefix *)

TxUsesTabs == <<"Uses", "tabs">>
TxAvoidsTabs == <<"Avoids", "tabs">>

OppositeSignals ==
    {Signal(text, c, "PREFERENCE", "regex") :
        text \in {TxUsesTabs, TxAvoidsTabs}, c \in {3500, 6000}}

\* The third observation carries no confidence of its own.
OppositeObservations ==
    {Observation(TxUsesTabs, 2000), Observation(TxAvoidsTabs, 2000), Observation(TxUsesVitest, 0)}

NextOpposite ==
    \/ hist.ops < MaxCalls /\ \E s \in OppositeSignals : AddCandidateOp(s)
    \/ hist.ops < MaxCalls /\ \E o \in OppositeObservations : AddObservationOp(o)
    \/ hist.ops < MaxCalls /\ \E id \in InferredIds : AcceptOp(id)

SpecOpposite == Init /\ [][NextOpposite]_vars

\* C31: addObservation raises the confidence of a stored non-inferred
\* learning only when the observation's prefix does not contradict that
\* learning's prefix: an observation "Uses tabs" never raises the confidence
\* of a stored "Avoids tabs".
C31_NoCorroborationAcrossPrefixes ==
    [][\A o \in OppositeObservations :
         AddObservationOp(o) =>
            \A i \in 1..Len(learnings) :
               (/\ ~learnings[i].inferred
                /\ prefixContradicts(extractPrefix(learnings[i].text), extractPrefix(o.text)))
               => learnings'[i].confidence <= learnings[i].confidence]_vars

----------------------------------------------------------------------------
(* The cross-session analyzer run again and again on a store whose         *)
(* learnings carry recorded sessions                                       *)

\* A learning as the analyzer's tests seed it: active, seen in sessions 1
\* and 2.
SeenInTwoSessions(cls, conf) ==
    [NewCandidate(Signal(<<"Always", "add", "error", "handling">>, conf, cls, "regex"),
                  MINUTES_PER_DAY, 1)
     EXCEPT !.evidence_count = PROMOTION_MIN_EVIDENCE, !.has_session_ids = TRUE, !.session_ids = <<1, 2>>]

InitCross ==
    /\ \E cls \in {"PREFERENCE", "BEHAVIORAL_GAP", "QUALITY_STANDARD", "DESIGN_PRINCIPLE"} :
       \E conf \in {5500, 9500} :
          learnings = <<SeenInTwoSessions(cls, conf)>>
    /\ nextId = 2
    /\ meta = EmptyMeta
    /\ wal = <<>>
    /\ buffer = EmptyBuffer
    /\ profile = NoProfile
    /\ config = DefaultConfig
    /\ now = MINUTES_PER_DAY
    /\ procs = NoProcs
    /\ context = NoContext
    /\ claudeMd = NoFile
    /\ hist = NoHist

\* The sessions after the two recorded ones.
LaterSessions == (CROSS_BOOST_SESSIONS)..(DEEP_UPGRADE_SESSIONS + 1)

MarkSessionTouchOp(id, sid) ==
    /\ SaveLearnings(markSessionTouch(learnings, id, sid))
    /\ Count("markSessionTouch")
    /\ UNCHANGED <<meta, wal, buffer, profile, config, now, procs, context, claudeMd>>

NonTerminalRows == {i \in 1..Len(learnings) : ~learnings[i].archived /\ ~learnings[i].promoted}

DetectCrossSessionPatternsOp(sid) ==
    /\ SaveLearnings(detectCrossSessionPatterns(learnings, sid))
    /\ hist' = [hist EXCEPT !.ops = @ + 1, !.last = "detectCrossSessionPatterns",
                    !.counts = @ \cup {Len(SessionsOf(learnings[i], sid)) : i \in
                                  {k \in NonTerminalRows :
                                      Len(SessionsOf(learnings[k], sid)) >= CROSS_BOOST_SESSIONS}}]
    /\ UNCHANGED <<meta, wal, buffer, profile, config, now, procs, context, claudeMd>>

NextCross ==
    \/ Within /\ \E sid \in LaterSessions : MarkSessionTouchOp(1, sid)
    \/ Within /\ \E sid \in LaterSessions : DetectCrossSessionPatternsOp(sid)
    \/ Within /\ PromoteOp

SpecCross == InitCross /\ [][NextCross]_vars

\* What one analyzer run may do to a non-terminal learning l that it finds
\* in n sessions, leaving it as l2.
RunAsClaimed(l, l2, n) ==
    LET boostNow == n >= 3 /\ ~l.cross_session_boosted
        deepNow == l2.classification = "THINKING_PATTERN" /\ l.classification # "THINKING_PATTERN"
        toStandard == l.classification \in {"PREFERENCE", "BEHAVIORAL_GAP"}
                      /\ l2.classification # l.classification
    IN /\ l2.cross_session_boosted = (l.cross_session_boosted \/ n >= 3)
       /\ l2.confidence = Min(One, Min(One, l.confidence + IF boostNow THEN 1000 ELSE 0)
                                   + IF deepNow THEN 500 ELSE 0)
       /\ toStandard => n >= 4
       /\ deepNow => n >= 5 /\ ~l.deep_pattern_upgrade /\ l2.deep_pattern_upgrade
       /\ l2.classification # l.classification => toStandard \/ deepNow

\* C32: across any sequence of cross-session analyzer runs, a non-terminal
\* learning receives the +0.10 boost exactly once, in the first run that
\* finds it in three or more sessions (the boosted mark, once set, stays);
\* PREFERENCE or BEHAVIORAL_GAP becomes QUALITY_STANDARD only in a run that
\* finds four or more sessions, and QUALITY_STANDARD becomes THINKING_PATTERN,
\* with +0.05, only in a run that finds five or more, and at most once.
C32_BoostOnceUpgradesAtFourAndFive ==
    [][/\ \A i \in 1..Len(learnings) :
            /\ learnings[i].cross_session_boosted => learnings'[i].cross_session_boosted
            /\ learnings[i].deep_pattern_upgrade => learnings'[i].deep_pattern_upgrade
       /\ \A sid \in LaterSessions :
            DetectCrossSessionPatternsOp(sid) =>
               \A i \in NonTerminalRows :
                  RunAsClaimed(learnings[i], learnings'[i], Len(SessionsOf(learnings[i], sid)))]_vars

\* A PREFERENCE seeded at 0.55 that three runs found in three, four and five
\* sessions: it is a THINKING_PATTERN at 0.55 + 0.10 + 0.05.
C32_BoostedThenUpgradedTwice ==
    /\ hist.last = "detectCrossSessionPatterns"
    /\ {3, 4, 5} \subseteq hist.counts
    /\ learnings[1].classification = "THINKING_PATTERN"
    /\ learnings[1].classification_upgraded_from = "PREFERENCE"
    /\ learnings[1].cross_session_boosted
    /\ learnings[1].confidence = 5500 + CROSS_BOOST_DELTA + DEEP_UPGRADE_DELTA

----------------------------------------------------------------------------
(* Observations the developer has rejected *)

Rejected(l) == l.archived /\ l.archived_reason = "Rejected by developer"

\* C33: after rejectObservation(id) has archived an inferred learning, a
\* later addObservation carrying the same text creates no new inferred
\* learning: the rejected observation does not come back among the inferred
\* or active learnings.
C33_RejectedStaysAway ==
    [][\A o \in StoreObservations :
         (/\ AddObservationOp(o)
          /\ \E i \in 1..Len(learnings) : Rejected(learnings[i]) /\ learnings[i].text = o.text)
         => /\ Len(learnings') = Len(learnings)
            /\ \A i \in 1..Len(learnings') :
                  learnings'[i].text = o.text /\ ~learnings'[i].archived
                  => ~learnings[i].archived]_vars

----------------------------------------------------------------------------
(* CLAUDE.md after several runs of the promoter *)

\* Two learnings as the promoter's tests seed them: "Uses pnpm", ready for
\* promotion, and "New insight", one piece of evidence short of it.
SeededForPromotion ==
    <<[NewCandidate(Signal(TxUsesPnpm, 8500, "PREFERENCE", "regex"), MINUTES_PER_DAY, 1)
         EXCEPT !.evidence_count = PROMOTION_MIN_EVIDENCE + 1],
      [NewCandidate(Signal(<<"New", "insight">>, 9200, "DESIGN_PRINCIPLE", "regex"),
                    MINUTES_PER_DAY, 2)
         EXCEPT !.evidence_count = PROMOTION_MIN_EVIDENCE - 1]>>

PromoterSignals ==
    {Signal(TxUsesPnpm, 3500, "PREFERENCE", "regex"),
     Signal(<<"New", "insight">>, 3500, "DESIGN_PRINCIPLE", "regex"),
     Signal(TxUsesVitest, 8000, "PREFERENCE", "regex")}

InitPromoter ==
    /\ learnings = SeededForPromotion
    /\ nextId = 3
    /\ meta = EmptyMeta
    /\ wal = <<>>
    /\ buffer = EmptyBuffer
    /\ profile = NoProfile
    /\ config = DefaultConfig
    /\ now = MINUTES_PER_DAY
    /\ procs = NoProcs
    /\ context = NoContext
    /\ claudeMd \in {NoFile, [NoFile EXCEPT !.present = TRUE, !.user_text = TRUE]}
    /\ hist = NoHist

NextPromoter ==
    \/ Within /\ \E s \in PromoterSignals : AddCandidateOp(s)
    \/ Within /\ PromoteOp
    \/ Within /\ hist.ticks < MaxTicks /\ Tick(ShortPause)

SpecPromoter == InitPromoter /\ [][NextPromoter]_vars

InSection(text) == \E k \in 1..Len(claudeMd.section) : claudeMd.section[k].text = text

\* C34: after any sequence of promoteToClaudeMd runs on the same project,
\* every learning marked promoted in the store (and so no longer injected)
\* has its text inside the fenced opentell section of the project's
\* CLAUDE.md.
C34_PromotedAreInClaudeMd ==
    \A i \in 1..Len(learnings) : learnings[i].promoted => InSection(learnings[i].text)

----------------------------------------------------------------------------
(* The three outcomes of addObservation *)

\* The non-archived learnings, inferred or not, whose core is similar to the
\* observation's.
MatchingRows(o, inferred) ==
    {i \in 1..Len(learnings) :
        /\ ~learnings[i].archived
        /\ learnings[i].inferred = inferred
        /\ similar(extractCore(learnings[i].text), extractCore(o.text))}

OtherRowsKept(i) ==
    /\ Len(learnings') = Len(learnings)
    /\ \A j \in 1..Len(learnings) : j # i => learnings'[j] = learnings[j]

\* C35: addObservation does exactly one of three things: if a non-archived
\* non-inferred learning matches (core similarity > 0.7) it adds 0.03 to that
\* learning's confidence (at most 1), increments observation_corroborations
\* and creates no row; otherwise, if a non-archived inferred learning matches,
\* it sets that learning's confidence to min(confidence + 0.05, 0.44) and
\* creates no row; otherwise it creates one new inferred row at the
\* observation's starting confidence.
C35_AddObservationOneOfThree ==
    [][\A o \in OppositeObservations :
         AddObservationOp(o) =>
            IF MatchingRows(o, FALSE) # {}
            THEN \E i \in MatchingRows(o, FALSE) :
                    /\ OtherRowsKept(i)
                    /\ learnings'[i].confidence = Min(10000, learnings[i].confidence + 300)
                    /\ learnings'[i].observation_corroborations
                          = learnings[i].observation_corroborations + 1
            ELSE IF MatchingRows(o, TRUE) # {}
            THEN \E i \in MatchingRows(o, TRUE) :
                    /\ OtherRowsKept(i)
                    /\ learnings'[i].confidence = Min(learnings[i].confidence + 500, 4400)
                    /\ learnings'[i].inferred
            ELSE /\ Len(learnings') = Len(learnings) + 1
                 /\ SubSeq(learnings', 1, Len(learnings)) = learnings
                 /\ learnings'[Len(learnings')].inferred
                 /\ learnings'[Len(learnings')].text = o.text
                 /\ learnings'[Len(learnings')].confidence
                       = IF o.confidence # 0 THEN o.confidence ELSE 2000]_vars

\* All three have happened: "Uses vitest" was observed twice (a new inferred
\* row at 0.20, then the same row at 0.25), and the last call corroborated
\* the learning "Uses tabs".
C35_CreatedReinforcedCorroborated ==
    /\ hist.last = "addObservation"
    /\ Len(learnings) = 2
    /\ \E j, k \in 1..Len(learnings) :
          /\ ~learnings[j].archived /\ ~learnings[j].inferred
          /\ learnings[j].text = TxUsesTabs
          /\ learnings[j].observation_corroborations = 1
          /\ learnings[k].inferred /\ learnings[k].text = TxUsesVitest
          /\ learnings[k].confidence = 2500

----------------------------------------------------------------------------
(* acceptObservation and rejectObservation called with any id *)

\* The ids on file, and one that is on no learning.
AnyIds == 0..(nextId - 1)

NextDecide ==
    \/ Within /\ \E s \in PromoteSignals : AddCandidateOp(s)
    \/ Within /\ \E id \in AnyIds : AcceptOp(id)
    \/ Within /\ \E id \in AnyIds : RejectOp(id)
    \/ Within /\ PromoteOp

SpecDecide == InitPromote /\ [][NextDecide]_vars

RowOf(id) == CHOOSE i \in 1..Len(learnings) : learnings[i].id = id

OpenObservation(id) ==
    \E i \in 1..Len(learnings) :
        learnings[i].id = id /\ learnings[i].inferred /\ ~learnings[i].archived

\* C36: acceptObservation(id) on a non-archived inferred learning clears its
\* inferred flag and sets its confidence to max(confidence + 0.25, 0.45), so
\* that the learning is in the active set afterwards; rejectObservation(id)
\* archives it, so that it is in neither the inferred nor the active set; for
\* an unknown id, a non-inferred learning or an archived learning both
\* return null and leave the store unchanged.
C36_AcceptActivatesRejectArchives ==
    [][\A id \in AnyIds :
         /\ AcceptOp(id) =>
               IF OpenObservation(id)
               THEN /\ ~learnings'[RowOf(id)].inferred
                    /\ learnings'[RowOf(id)].confidence
                          = Max(learnings[RowOf(id)].confidence + 2500, 4500)
                    /\ IsActive(learnings'[RowOf(id)], 4500)
               ELSE learnings' = learnings
         /\ RejectOp(id) =>
               IF OpenObservation(id)
               THEN /\ learnings'[RowOf(id)].archived
                    /\ ~IsActive(learnings'[RowOf(id)], 4500)
               ELSE learnings' = learnings]_vars

----------------------------------------------------------------------------
(* Observer: observations the developer validates (lib/observer.js).  What *)
(* the assistant said is given by the observations its patterns yield, in  *)
(* pattern order; what the developer said is given by its words.           *)

MAX_VALIDATION_LENGTH == 80
VALIDATED_CONFIDENCE == 4500

\* VALIDATION_PATTERNS: an affirmation at the start, or "good catch" and the
\* like anywhere.
MatchesValidation(said) ==
    \/ said # <<>> /\ Head(said) \in {"yes", "yeah", "yep", "exactly", "correct", "right", "precisely"}
    \/ Len(said) >= 2 /\ <<said[1], said[2]>> \in
          {<<"spot", "on">>, <<"that's", "right">>, <<"thats", "right">>,
           <<"you're", "right">>, <<"youre", "right">>}
    \/ Adjacent(said, {"good"}, {"catch", "observation", "point", "call", "find", "notice"})
    \/ \E i \in 1..(Len(said) - 2) :
          /\ said[i] \in {"that's", "thats"}
          /\ said[i+1] \in {"the", "a"}
          /\ said[i+2] \in {"problem", "issue", "point", "reason"}

\* REJECTION_PATTERNS: "no ..", "nope", "not quite" at the start, or
\* "actually", "instead" (before another word) and "rather than" anywhere.
MatchesRejection(said) ==
    \/ Len(said) >= 2 /\ said[1] = "no"
    \/ said # <<>> /\ Head(said) = "nope"
    \/ Len(said) >= 2 /\ said[1] = "not" /\ said[2] \in {"quite", "exactly", "right", "correct"}
    \/ Len(said) >= 2 /\ said[1] \in {"that's", "thats"} /\ said[2] = "not"
    \/ \E i \in 1..(Len(said) - 1) : said[i] \in {"actually", "instead"}
    \/ Adjacent(said, {"rather"}, {"than"})

\* observations.sort((a, b) => b.confidence - a.confidence)[0]: the first of
\* the observations with the highest confidence.
BestObservation(observations) ==
    observations[CHOOSE i \in 1..Len(observations) :
        /\ \A j \in 1..Len(observations) : observations[j].confidence <= observations[i].confidence
        /\ \A j \in 1..(i-1) : observations[j].confidence < observations[i].confidence]

\* Variant of detectValidatedObservation without the rejection patterns.
detectValidatedObservation_NoRejection(observations, userSaid) ==
    IF \/ TextLength(userSaid) > MAX_VALIDATION_LENGTH
       \/ ~MatchesValidation(toLowerCase(userSaid))
       \/ observations = <<>>
    THEN <<>>
    ELSE <<[Signal(BestObservation(observations).text, VALIDATED_CONFIDENCE,
                   BestObservation(observations).classification, "validated_observation")
            EXCEPT !.area = BestObservation(observations).area]>>

\* detectValidatedObservation(claudeSaid, userSaid): the signal it returns
\* (none: null).
detectValidatedObservation(observations, userSaid) ==
    IF \/ userSaid = <<>>
       \/ TextLength(userSaid) > MAX_VALIDATION_LENGTH
       \/ MatchesRejection(toLowerCase(userSaid))
       \/ ~MatchesValidation(toLowerCase(userSaid))
       \/ observations = <<>>
    THEN <<>>
    ELSE <<[Signal(BestObservation(observations).text, VALIDATED_CONFIDENCE,
                   BestObservation(observations).classification, "validated_observation")
            EXCEPT !.area = BestObservation(observations).area]>>

\* The observer's part of the turn-stop hook for one pair: the validated
\* observation goes to addCandidate, and without one every observation goes
\* to addObservation.
ObserverOp(observations, userSaid) ==
    /\ SaveLearnings(PairObservations(learnings,
          Pair(0, <<>>, FALSE, detectValidatedObservation(observations, userSaid), observations),
          now))
    /\ Count("observer")
    /\ UNCHANGED <<meta, wal, buffer, profile, config, now, procs, context, claudeMd>>

\* What the assistant said: nothing the patterns match, "I'll use pnpm since
\* that's what the project uses", and the same with "following the same
\* error handling as the routes".
SaidByAssistant ==
    {<<>>,
     <<Observation(TxUsesPnpm, 2500)>>,
     <<Observation(TxUsesPnpm, 2500),
       [Observation(<<"Convention:", "error", "handling">>, 1800)
          EXCEPT !.classification = "QUALITY_STANDARD"]>>,
     <<[Observation(<<"Convention:", "error", "handling">>, 1800)
          EXCEPT !.classification = "QUALITY_STANDARD"]>>}

LongReply ==
    <<"yes", "but", "also", "make", "sure", "to", "add", "error", "handling", "to",
      "every", "endpoint", "and", "use", "the", "correct", "import", "paths">>

SaidByDeveloper ==
    {<<"yes", "exactly">>, <<"good", "catch">>, <<"looks", "fine">>,
     <<"no", "we", "use", "npm">>, <<"yes", "actually", "use", "npm">>, LongReply}

ValidatedSignals ==
    {Signal(TxUsesPnpm, 3500, "PREFERENCE", "regex"), Signal(TxUsesNpm, 3500, "PREFERENCE", "regex")}

NextValidated ==
    \/ hist.ops < MaxCalls /\ \E o \in SaidByAssistant : \E u \in SaidByDeveloper : ObserverOp(o, u)
    \/ hist.ops < MaxCalls /\ \E s \in ValidatedSignals : AddCandidateOp(s)

SpecValidated == Init /\ [][NextValidated]_vars

\* The conditions of the claim, on the words the developer said.
ShortAffirmation(u) ==
    /\ TextLength(u) <= 80
    /\ ~MatchesRejection(toLowerCase(u))
    /\ MatchesValidation(toLowerCase(u))

----------------------------------------------------------------------------
(* Sessions during which the developer pauses and resumes the plugin *)

\* "pause" / "resume" of the command line (updateConfig), given between two
\* runs of the hooks.
SetPaused(paused) ==
    /\ procs.se.pc = "idle"
    /\ config.paused # paused
    /\ config' = [config EXCEPT !.paused = paused]
    /\ Count(IF paused THEN "pause-command" ELSE "resume-command")
    /\ UNCHANGED <<learnings, meta, wal, buffer, profile, now, nextId, procs, context, claudeMd>>

PausedPairs == {PrefersPnpmPair, AmbiguousPair(3)}

NextPaused ==
    \/ Within /\ \E paused \in BOOLEAN : SetPaused(paused)
    \/ Within /\ SessionStart
    \/ Within /\ procs.session.turns < MaxTurns /\ \E p \in PausedPairs : TurnStop(p, FALSE)
    \/ Within /\ Len(buffer.tool_events) < MaxToolEvents /\ \E c \in Commands : ToolUse(c)
    \/ Within /\ SessionEndQuiet
    \/ Within /\ SessionEndBegin
    \/ Within /\ \E outcome \in ClassifierOutcomes : SessionEndClassify(outcome)
    \/ Within /\ SessionEndFinish
    \/ Within /\ \E h \in Hooks : \E input \in ThrowingInputs : HookCaught(h, input)
    \/ Within /\ hist.ticks < MaxTicks /\ Tick(ShortPause)

SpecPaused == Init /\ [][NextPaused]_vars

SessionEndOver == hist.last \in {"session-end", ErrorLogged["session-end"]}

Cleared == wal = <<>> /\ buffer = EmptyBuffer

\* C38 (as stated): when any session-end hook invocation finishes, on the
\* normal path and on the error path alike, the WAL is empty and the session
\* buffer has been reset to its empty state.
C38_SessionEndClears == SessionEndOver => Cleared

\* C38 (amended): when a session-end hook invocation finishes while the
\* plugin is not paused, on the normal path and on the error path alike, the
\* WAL is empty and the session buffer has been reset to its empty state.
C38_UnpausedSessionEndClears == (SessionEndOver /\ ~config.paused) => Cleared

\* A session-end that found pairs in the WAL has drained them and finished:
\* WAL and buffer are empty.
C38_DrainedAndCleared ==
    /\ hist.last = "session-end"
    /\ ~config.paused
    /\ hist.at_begin # {}
    /\ hist.submitted = hist.at_begin
    /\ Cleared

HookLabels == {"session-start", "turn-stop", "tool-use", "session-end"}
                  \cup {ErrorLogged[h] : h \in Hooks}

\* C39: while config.paused is true, every hook (session-start, turn-stop,
\* tool-use, session-end) exits without changing the learning store, the WAL
\* or the session buffer, and session-start emits no context.
C39_PausedHooksChangeNothing ==
    [][(config.paused /\ hist'.last \in HookLabels /\ hist'.ops # hist.ops)
          => /\ learnings' = learnings
             /\ wal' = wal
             /\ buffer' = buffer
             /\ context' = context]_vars

----------------------------------------------------------------------------
(* The classification of a learning over its lifetime: reinforcement and   *)
(* the cross-session analyzer on one learning                               *)

TxErrorHandling == <<"Always", "add", "error", "handling">>

InitDepth ==
    /\ \E cls \in {"PREFERENCE", "QUALITY_STANDARD"} :
          learnings = <<SeenInTwoSessions(cls, 5500)>>
    /\ nextId = 2
    /\ meta = EmptyMeta
    /\ wal = <<>>
    /\ buffer = EmptyBuffer
    /\ profile = NoProfile
    /\ config = DefaultConfig
    /\ now = MINUTES_PER_DAY
    /\ procs = NoProcs
    /\ context = NoContext
    /\ claudeMd = NoFile
    /\ hist = NoHist

DepthSignals ==
    {Signal(TxErrorHandling, 3500, cls, "llm") :
        cls \in {"PREFERENCE", "BEHAVIORAL_GAP", "DESIGN_PRINCIPLE"}}

NextDepth ==
    \/ Within /\ \E s \in DepthSignals : AddCandidateOp(s)
    \/ Within /\ \E sid \in LaterSessions : MarkSessionTouchOp(1, sid)
    \/ Within /\ \E sid \in LaterSessions : DetectCrossSessionPatternsOp(sid)

SpecDepth == InitDepth /\ [][NextDepth]_vars

\* C40: a learning's classification depth (THINKING_PATTERN 5,
\* DESIGN_PRINCIPLE 4, QUALITY_STANDARD 3, BEHAVIORAL_GAP 2, PREFERENCE 1)
\* never decreases over its lifetime: reinforcement by addCandidate and
\* cross-session upgrades only ever replace a classification by a strictly
\* deeper one.
C40_DepthNeverDecreases ==
    [][\A i \in 1..Len(learnings) :
          (i <= Len(learnings') /\ learnings'[i].id = learnings[i].id) =>
             \/ learnings'[i].classification = learnings[i].classification
             \/ DEPTH_ORDER(learnings'[i].classification)
                   > DEPTH_ORDER(learnings[i].classification)]_vars

\* A learning stored as a PREFERENCE that addCandidate raised to
\* BEHAVIORAL_GAP, that the analyzer then raised to QUALITY_STANDARD and to
\* THINKING_PATTERN, reinforced by addCandidate at least twice in all.
C40_RaisedThreeTimes ==
    /\ Len(learnings) = 1
    /\ learnings[1].classification = "THINKING_PATTERN"
    /\ learnings[1].classification_upgraded_from = "BEHAVIORAL_GAP"
    /\ learnings[1].deep_pattern_upgrade
    /\ learnings[1].evidence_count > PROMOTION_MIN_EVIDENCE + 1

====
